---- MODULE Spec2Model ----
(***************************************************************************)
(* State-machine model of the wa-sqlite relay layer: the VFS relay         *)
(* (src/src/libvfs.c), the relay signatures (src/src/libadapters.h) and    *)
(* the update-hook relays (src/src/libhook.c, src/src/libfunction.c).      *)
(*                                                                         *)
(* Pointers are modelled by indices: a VFS* is an index into vfs, a        *)
(* sqlite3_file* is an index into files, a sqlite3_io_methods* is an index *)
(* into tables.  Function pointers are modelled by the name of the         *)
(* function they point to.                                                 *)
(***************************************************************************)
EXTENDS Integers, Sequences, FiniteSets, TLC

(***************************************************************************)
(* Bounds of the model.                                                    *)
(***************************************************************************)
MaxVfs == 2        \* registrations performed
MaxFiles == 1      \* sqlite3_file records the engine hands to xOpen
MaxTables == 1     \* method tables allocated by opens
MaxHandles == 2    \* sqlite3_file records where handles are open together
MaxOpens == 3      \* method tables where handles are opened again
MaxShmLog == 2     \* xShmLock calls the engine makes

(***************************************************************************)
(* Values of sqlite3.h used by the relay.                                  *)
(***************************************************************************)
SQLITE_OK == 0
SQLITE_NOMEM == 7
SQLITE_IOERR == 10

\* Result codes a host-side method may produce.
ResultCodes == {SQLITE_OK, SQLITE_IOERR}

\* A null data pointer, and a null function pointer.
NULL == 0
NULLFN == "NULL"
None == [none |-> TRUE]

(***************************************************************************)
(* libvfs.c, lines 10-38: the method enumeration.  An identifier METHOD of *)
(* the source is modelled by its name; MethodEnum[METHOD] is its value as  *)
(* an enumeration constant, the string itself is what #METHOD produces.    *)
(***************************************************************************)
MethodEnum ==
  [ xOpen |-> 0, xDelete |-> 1, xAccess |-> 2, xFullPathname |-> 3,
    xRandomness |-> 4, xSleep |-> 5, xCurrentTime |-> 6,
    xGetLastError |-> 7, xCurrentTimeInt64 |-> 8,
    xClose |-> 9, xRead |-> 10, xWrite |-> 11, xTruncate |-> 12,
    xSync |-> 13, xFileSize |-> 14, xLock |-> 15, xUnlock |-> 16,
    xCheckReservedLock |-> 17, xFileControl |-> 18, xSectorSize |-> 19,
    xDeviceCharacteristics |-> 20, xShmMap |-> 21, xShmLock |-> 22,
    xShmBarrier |-> 23, xShmUnmap |-> 24 ]

\* The members of sqlite3_vfs resolved by libvfs_vfs_register (lines 208-216).
VfsSlots ==
  { "xOpen", "xDelete", "xAccess", "xFullPathname", "xRandomness", "xSleep",
    "xCurrentTime", "xGetLastError", "xCurrentTimeInt64" }

\* The members of sqlite3_io_methods filled by libvfs_xOpen (lines 129-144).
FileSlots ==
  { "xClose", "xRead", "xWrite", "xTruncate", "xSync", "xFileSize", "xLock",
    "xUnlock", "xCheckReservedLock", "xFileControl", "xSectorSize",
    "xDeviceCharacteristics", "xShmMap", "xShmLock", "xShmBarrier",
    "xShmUnmap" }

\* mask & (1 << n) as a truth value.
BitSet(mask, n) == (mask \div (2 ^ n)) % 2 = 1

\* The mask with exactly the bits of the methods in S set.
RECURSIVE MaskOf(_)
MaskOf(S) ==
  IF S = {} THEN 0
  ELSE LET m == CHOOSE x \in S : TRUE
       IN  (2 ^ MethodEnum[m]) + MaskOf(S \ {m})

AllMethods == MaskOf(DOMAIN MethodEnum)

(***************************************************************************)
(* What sqlite3_vfs_find(NULL) can return before any registration: the     *)
(* engine's built-in VFS, or a null pointer when the build registers none. *)
(***************************************************************************)
BUILTIN == -1
NOVFS == NULL
\* pMethods of a handle opened by the built-in VFS.
BUILTIN_IO == -1
\* A function pointer read through a null sqlite3_vfs*.
GARBAGE == "GARBAGE"

\* The database connections of the engine.
Conns == {"c1", "c2"}
Files == 1..MaxFiles

VARIABLES
  vfs,          \* the VFS records allocated by libvfs_vfs_register, in order
  defaultVfs,   \* what sqlite3_vfs_find(NULL) returns
  regCall,      \* the libvfs_vfs_register call that has just returned:
                \* its value and the caller's *ppVfs
  files,        \* the VFSFile records: pMethods and pVfs
  tables,       \* the sqlite3_io_methods records allocated by libvfs_xOpen
  calls,        \* per connection: the virtual-method call in progress
  shmNative,    \* the xShmLock calls made by the engine, in order
  shmHost,      \* the xShmLock calls seen by the host, in order
  crashed,      \* the program trapped
  updateHook,   \* per database connection: the update hook installed
  hookRowid,    \* the rowid of the last update the engine reported
  hookCall,     \* the host call made for it
  callbacks,    \* per database connection: the callbacks installed
  cbCall,       \* the last callback the engine called: the host call it made
  lastInstall   \* per database connection and hook family: the arguments of
                \* the most recent installation call, where a behaviour
                \* records them

vfsVars == <<vfs, defaultVfs, regCall, files, tables, calls,
             shmNative, shmHost, crashed>>
hookVars == <<updateHook, hookRowid, hookCall, callbacks, cbCall, lastInstall>>
vars == <<vfsVars, hookVars>>

(***************************************************************************)
(* libvfs.c, lines 52-55: VFS_JS.  The asynchronous form of SIGNATURE is   *)
(* chosen iff bit METHOD of KEY's asyncMask is set.  Both forms get KEY,   *)
(* #METHOD and the arguments.                                              *)
(***************************************************************************)
VFS_JS_methodMask(SIGNATURE, KEY, METHOD, args) ==
  [ sig |-> SIGNATURE,
    form |-> IF BitSet(vfs[KEY].methodMask, MethodEnum[METHOD])
             THEN "async" ELSE "sync",
    key |-> KEY, method |-> METHOD, args |-> args ]

VFS_JS_async(SIGNATURE, KEY, METHOD, args) ==
  [ sig |-> SIGNATURE, form |-> "async",
    key |-> KEY, method |-> METHOD, args |-> args ]

VFS_JS_dropFlags(SIGNATURE, KEY, METHOD, args) ==
  [ sig |-> SIGNATURE,
    form |-> IF BitSet(vfs[KEY].asyncMask, MethodEnum[METHOD])
             THEN "async" ELSE "sync",
    key |-> KEY, method |-> METHOD,
    args |-> IF Len(args) = 4 THEN [args EXCEPT ![4] = 0] ELSE args ]

VFS_JS_otherName(SIGNATURE, KEY, METHOD, args) ==
  [ sig |-> SIGNATURE,
    form |-> IF BitSet(vfs[KEY].asyncMask, MethodEnum[METHOD])
             THEN "async" ELSE "sync",
    key |-> KEY,
    method |-> IF METHOD = "xUnlock" THEN "xLock" ELSE METHOD,
    args |-> args ]

VFS_JS(SIGNATURE, KEY, METHOD, args) ==
  [ sig |-> SIGNATURE,
    form |-> IF BitSet(vfs[KEY].asyncMask, MethodEnum[METHOD])
             THEN "async" ELSE "sync",
    key |-> KEY, method |-> METHOD, args |-> args ]

(***************************************************************************)
(* libvfs.c, lines 57-119: the per-handle adapters.  Each is the relay     *)
(* call it makes; the key is the handle's back-reference.                  *)
(***************************************************************************)
libvfs_xClose(pFile) ==
  VFS_JS("ippp", files[pFile].pVfs, "xClose", <<pFile>>)

libvfs_xRead_defaultKey(pFile, pData, iAmt, iOffset) ==
  VFS_JS("ippppij",
         IF defaultVfs \in 1..Len(vfs) THEN defaultVfs ELSE files[pFile].pVfs,
         "xRead", <<pFile, pData, iAmt, iOffset>>)

libvfs_xRead(pFile, pData, iAmt, iOffset) ==
  VFS_JS("ippppij", files[pFile].pVfs, "xRead", <<pFile, pData, iAmt, iOffset>>)

libvfs_xWrite(pFile, pData, iAmt, iOffset) ==
  VFS_JS("ippppij", files[pFile].pVfs, "xWrite", <<pFile, pData, iAmt, iOffset>>)

libvfs_xTruncate(pFile, size) ==
  VFS_JS("ipppj", files[pFile].pVfs, "xTruncate", <<pFile, size>>)

libvfs_xSync(pFile, flags) ==
  VFS_JS("ipppi", files[pFile].pVfs, "xSync", <<pFile, flags>>)

libvfs_xFileSize(pFile, pSize) ==
  VFS_JS("ipppp", files[pFile].pVfs, "xFileSize", <<pFile, pSize>>)

libvfs_xLock(pFile, lockType) ==
  VFS_JS("ipppi", files[pFile].pVfs, "xLock", <<pFile, lockType>>)

libvfs_xUnlock(pFile, lockType) ==
  VFS_JS("ipppi", files[pFile].pVfs, "xUnlock", <<pFile, lockType>>)

libvfs_xCheckReservedLock(pFile, pResOut) ==
  VFS_JS("ipppp", files[pFile].pVfs, "xCheckReservedLock", <<pFile, pResOut>>)

libvfs_xFileControl(pFile, flags, pOut) ==
  VFS_JS("ipppip", files[pFile].pVfs, "xFileControl", <<pFile, flags, pOut>>)

libvfs_xSectorSize(pFile) ==
  VFS_JS("ippp", files[pFile].pVfs, "xSectorSize", <<pFile>>)

libvfs_xDeviceCharacteristics(pFile) ==
  VFS_JS("ippp", files[pFile].pVfs, "xDeviceCharacteristics", <<pFile>>)

libvfs_xShmMap(pFile, iPg, pgsz, unused, p) ==
  VFS_JS("ipppiiip", files[pFile].pVfs, "xShmMap", <<pFile, iPg, pgsz, unused, p>>)

libvfs_xShmLock(pFile, offset, n, flags) ==
  VFS_JS("ipppiii", files[pFile].pVfs, "xShmLock", <<pFile, offset, n, flags>>)

libvfs_xShmBarrier(pFile) ==
  VFS_JS("vppp", files[pFile].pVfs, "xShmBarrier", <<pFile>>)

libvfs_xShmUnmap(pFile, deleteFlag) ==
  VFS_JS("ipppi", files[pFile].pVfs, "xShmUnmap", <<pFile, deleteFlag>>)

(***************************************************************************)
(* libvfs.c, line 123: the relay call libvfs_xOpen starts with, and lines  *)
(* 151-181: the other instance-level adapters.  The key is the sqlite3_vfs *)
(* the engine passes.                                                      *)
(***************************************************************************)
libvfs_xOpen(pVfs, zName, pFile, flags, pOutFlags) ==
  VFS_JS("ipppppip", pVfs, "xOpen", <<pVfs, zName, pFile, flags, pOutFlags>>)

libvfs_xDelete(pVfs, zName, syncDir) ==
  VFS_JS("ippppi", pVfs, "xDelete", <<pVfs, zName, syncDir>>)

libvfs_xAccess(pVfs, zName, flags, pResOut) ==
  VFS_JS("ippppip", pVfs, "xAccess", <<pVfs, zName, flags, pResOut>>)

libvfs_xFullPathname(pVfs, zName, nOut, zOut) ==
  VFS_JS("ippppip", pVfs, "xFullPathname", <<pVfs, zName, nOut, zOut>>)

libvfs_xRandomness(pVfs, nBuf, zBuf) ==
  VFS_JS("ipppip", pVfs, "xRandomness", <<pVfs, nBuf, zBuf>>)

libvfs_xSleep(pVfs, microseconds) ==
  VFS_JS("ipppi", pVfs, "xSleep", <<pVfs, microseconds>>)

libvfs_xCurrentTime(pVfs, pJulianDay) ==
  VFS_JS("ipppp", pVfs, "xCurrentTime", <<pVfs, pJulianDay>>)

libvfs_xGetLastError(pVfs, nBuf, zBuf) ==
  VFS_JS("ipppip", pVfs, "xGetLastError", <<pVfs, nBuf, zBuf>>)

libvfs_xCurrentTimeInt64(pVfs, pTime) ==
  VFS_JS("ipppp", pVfs, "xCurrentTimeInt64", <<pVfs, pTime>>)

(***************************************************************************)
(* libadapters.c, lines 41-67: the method enumeration of that file, and    *)
(* lines 81-84: its VFS_JS, which tests the bit this enumeration gives.    *)
(***************************************************************************)
AdapterMethodEnum ==
  [ xOpen |-> 0, xDelete |-> 1, xAccess |-> 2, xFullPathname |-> 3,
    xCurrentTime |-> 4, xGetLastError |-> 5, xCurrentTimeInt64 |-> 6,
    xClose |-> 7, xRead |-> 8, xWrite |-> 9, xTruncate |-> 10,
    xSync |-> 11, xFileSize |-> 12, xLock |-> 13, xUnlock |-> 14,
    xCheckReservedLock |-> 15, xFileControl |-> 16, xSectorSize |-> 17,
    xDeviceCharacteristics |-> 18, xShmMap |-> 19, xShmLock |-> 20,
    xShmBarrier |-> 21, xShmUnmap |-> 22 ]

\* The members of sqlite3_vfs resolved by adapter_vfs_register (lines 252-258).
AdapterVfsSlots ==
  { "xOpen", "xDelete", "xAccess", "xFullPathname", "xCurrentTime",
    "xGetLastError", "xCurrentTimeInt64" }

adapter_VFS_JS_libvfsEnum(SIGNATURE, KEY, METHOD, args) ==
  [ sig |-> SIGNATURE,
    form |-> IF BitSet(vfs[KEY].asyncMask, MethodEnum[METHOD])
             THEN "async" ELSE "sync",
    key |-> KEY, method |-> METHOD, args |-> args ]

adapter_VFS_JS(SIGNATURE, KEY, METHOD, args) ==
  [ sig |-> SIGNATURE,
    form |-> IF BitSet(vfs[KEY].asyncMask, AdapterMethodEnum[METHOD])
             THEN "async" ELSE "sync",
    key |-> KEY, method |-> METHOD, args |-> args ]

\* libadapters.c, lines 197-225: the instance-level adapters after xOpen.
adapter_xDelete(pVfs, zName, syncDir) ==
  adapter_VFS_JS("ippi", pVfs, "xDelete", <<pVfs, zName, syncDir>>)

adapter_xAccess(pVfs, zName, flags, pResOut) ==
  adapter_VFS_JS("ippip", pVfs, "xAccess", <<pVfs, zName, flags, pResOut>>)

adapter_xFullPathname(pVfs, zName, nOut, zOut) ==
  adapter_VFS_JS("ippip", pVfs, "xFullPathname", <<pVfs, zName, nOut, zOut>>)

adapter_xCurrentTime(pVfs, pJulianDay) ==
  adapter_VFS_JS("ipp", pVfs, "xCurrentTime", <<pVfs, pJulianDay>>)

adapter_xGetLastError(pVfs, nBuf, zBuf) ==
  adapter_VFS_JS("ipip", pVfs, "xGetLastError", <<pVfs, nBuf, zBuf>>)

adapter_xCurrentTimeInt64(pVfs, pTime) ==
  adapter_VFS_JS("ipp", pVfs, "xCurrentTimeInt64", <<pVfs, pTime>>)

(***************************************************************************)
(* The call through a function pointer: entry names the function, a is     *)
(* the argument list the engine passes.  The result is the list of host    *)
(* calls the adapter makes before it returns.                              *)
(***************************************************************************)
Invoke(entry, a) ==
  CASE entry = "libvfs_xClose" -> <<libvfs_xClose(a[1])>>
    [] entry = "libvfs_xRead" -> <<libvfs_xRead(a[1], a[2], a[3], a[4])>>
    [] entry = "libvfs_xWrite" -> <<libvfs_xWrite(a[1], a[2], a[3], a[4])>>
    [] entry = "libvfs_xTruncate" -> <<libvfs_xTruncate(a[1], a[2])>>
    [] entry = "libvfs_xSync" -> <<libvfs_xSync(a[1], a[2])>>
    [] entry = "libvfs_xFileSize" -> <<libvfs_xFileSize(a[1], a[2])>>
    [] entry = "libvfs_xLock" -> <<libvfs_xLock(a[1], a[2])>>
    [] entry = "libvfs_xUnlock" -> <<libvfs_xUnlock(a[1], a[2])>>
    [] entry = "libvfs_xCheckReservedLock" ->
         <<libvfs_xCheckReservedLock(a[1], a[2])>>
    [] entry = "libvfs_xFileControl" -> <<libvfs_xFileControl(a[1], a[2], a[3])>>
    [] entry = "libvfs_xSectorSize" -> <<libvfs_xSectorSize(a[1])>>
    [] entry = "libvfs_xDeviceCharacteristics" ->
         <<libvfs_xDeviceCharacteristics(a[1])>>
    [] entry = "libvfs_xShmMap" ->
         <<libvfs_xShmMap(a[1], a[2], a[3], a[4], a[5])>>
    [] entry = "libvfs_xShmLock" -> <<libvfs_xShmLock(a[1], a[2], a[3], a[4])>>
    [] entry = "libvfs_xShmBarrier" -> <<libvfs_xShmBarrier(a[1])>>
    [] entry = "libvfs_xShmUnmap" -> <<libvfs_xShmUnmap(a[1], a[2])>>
    [] entry = "libvfs_xOpen" -> <<libvfs_xOpen(a[1], a[2], a[3], a[4], a[5])>>
    [] entry = "libvfs_xDelete" -> <<libvfs_xDelete(a[1], a[2], a[3])>>
    [] entry = "libvfs_xAccess" -> <<libvfs_xAccess(a[1], a[2], a[3], a[4])>>
    [] entry = "libvfs_xFullPathname" ->
         <<libvfs_xFullPathname(a[1], a[2], a[3], a[4])>>
    [] entry = "libvfs_xRandomness" -> <<libvfs_xRandomness(a[1], a[2], a[3])>>
    [] entry = "libvfs_xSleep" -> <<libvfs_xSleep(a[1], a[2])>>
    [] entry = "libvfs_xCurrentTime" -> <<libvfs_xCurrentTime(a[1], a[2])>>
    [] entry = "libvfs_xGetLastError" ->
         <<libvfs_xGetLastError(a[1], a[2], a[3])>>
    [] entry = "libvfs_xCurrentTimeInt64" ->
         <<libvfs_xCurrentTimeInt64(a[1], a[2])>>
    [] entry = "adapter_xDelete" -> <<adapter_xDelete(a[1], a[2], a[3])>>
    [] entry = "adapter_xAccess" -> <<adapter_xAccess(a[1], a[2], a[3], a[4])>>
    [] entry = "adapter_xFullPathname" ->
         <<adapter_xFullPathname(a[1], a[2], a[3], a[4])>>
    [] entry = "adapter_xCurrentTime" -> <<adapter_xCurrentTime(a[1], a[2])>>
    [] entry = "adapter_xGetLastError" ->
         <<adapter_xGetLastError(a[1], a[2], a[3])>>
    [] entry = "adapter_xCurrentTimeInt64" ->
         <<adapter_xCurrentTimeInt64(a[1], a[2])>>

\* The functions of libvfs.c a table entry can point to.
RelayEntries == { "libvfs_" \o m : m \in DOMAIN MethodEnum }
IsRelay(entry) == entry \in RelayEntries
IsBuiltin(entry) == entry \in { "builtin_" \o m : m \in DOMAIN MethodEnum }
\* The instance-level adapters of libadapters.c after adapter_xOpen.
IsAdapter(entry) ==
  entry \in { "adapter_" \o m : m \in AdapterVfsSlots \ {"xOpen"} }

(***************************************************************************)
(* What an adapter returns, given the value of its relay call: every       *)
(* adapter returns it as it is (libvfs_xOpen: line 148), except            *)
(* libvfs_xShmBarrier, which returns nothing (lines 113-115).              *)
(***************************************************************************)
Void == "void"

AdapterReturn_okOnly(entry, result) ==
  IF entry = "libvfs_xShmBarrier" THEN Void ELSE SQLITE_OK

AdapterReturn(entry, result) ==
  IF entry = "libvfs_xShmBarrier" THEN Void ELSE result

(***************************************************************************)
(* libvfs.c, lines 126-145: the method table libvfs_xOpen builds for a     *)
(* handle of the instance pVfsExt.                                         *)
(***************************************************************************)
xOpen_METHOD_always(pVfsExt, NAME) == "libvfs_" \o NAME

xOpen_METHOD(pVfsExt, NAME) ==
  IF BitSet(vfs[pVfsExt].methodMask, MethodEnum[NAME])
  THEN "libvfs_" \o NAME ELSE NULLFN

IoMethods(pVfsExt) ==
  [ NAME \in FileSlots |-> xOpen_METHOD(pVfsExt, NAME) ]

\* The sqlite3_io_methods of the engine's built-in VFS.
BuiltinIoMethods == [ NAME \in FileSlots |-> "builtin_" \o NAME ]

\* Line 126: the table is a new allocation, filled with the members t.
xOpen_malloc_cached(heap, t) ==
  IF \E i \in 1..Len(heap) : heap[i] = t
  THEN [ heap |-> heap,
         pMethods |-> CHOOSE i \in 1..Len(heap) : heap[i] = t ]
  ELSE [ heap |-> Append(heap, t), pMethods |-> Len(heap) + 1 ]

xOpen_malloc(heap, t) ==
  [ heap |-> Append(heap, t), pMethods |-> Len(heap) + 1 ]

\* The method table of an open handle.
TableOf(pFile) ==
  IF files[pFile].pMethods = BUILTIN_IO THEN BuiltinIoMethods
  ELSE tables[files[pFile].pMethods]

ClosedFile == [ pMethods |-> NULL, pVfs |-> NULL ]

(***************************************************************************)
(* libvfs.c, lines 205-206: a member of the new sqlite3_vfs is the adapter *)
(* of this file if the method's bit is set, the member of the default VFS  *)
(* otherwise.  The member read through a null backupVfs is indeterminate.  *)
(***************************************************************************)
BackupEntry_builtin(backupVfs, NAME) == "builtin_" \o NAME

BackupEntry(backupVfs, NAME) ==
  IF backupVfs = NOVFS THEN GARBAGE
  ELSE IF backupVfs = BUILTIN THEN "builtin_" \o NAME
  ELSE vfs[backupVfs].base[NAME]

register_METHOD(methodMask, backupVfs, NAME) ==
  IF BitSet(methodMask, MethodEnum[NAME])
  THEN "libvfs_" \o NAME ELSE BackupEntry(backupVfs, NAME)

\* The masks the new instance keeps (lines 219-220).
StoredAsyncMask_clamp(methodMask, asyncMask) ==
  MaskOf({ m \in DOMAIN MethodEnum :
           BitSet(methodMask, MethodEnum[m]) /\ BitSet(asyncMask, MethodEnum[m]) })

StoredAsyncMask(methodMask, asyncMask) == asyncMask

(***************************************************************************)
(* Inputs.                                                                 *)
(***************************************************************************)
\* The registration calls the host makes.
RegChoices ==
  { [ zName |-> "A", mxPathName |-> 64,
      methodMask |-> MaskOf({"xRead", "xWrite"}), asyncMask |-> 0 ],
    [ zName |-> "B", mxPathName |-> 64,
      methodMask |-> MaskOf({"xOpen", "xDelete", "xClose", "xRead",
                             "xFileSize", "xShmLock", "xShmBarrier"}),
      asyncMask |-> MaskOf({"xDelete", "xRead", "xSleep", "xWrite"}) ],
    [ zName |-> "A", mxPathName |-> 512,
      methodMask |-> AllMethods,
      asyncMask |-> MaskOf({"xOpen", "xClose", "xShmLock", "xShmBarrier"}) ] }

\* SQLITE_SHM_LOCK | SQLITE_SHM_EXCLUSIVE and SQLITE_SHM_LOCK | SQLITE_SHM_SHARED
\* on the region (offset, n) = (0, 1).
ShmLockArgs == { <<0, 1, 10>>, <<0, 1, 6>> }

\* The arguments the engine passes after the sqlite3_vfs*.
VfsArgs(slot) ==
  CASE slot = "xDelete" -> { <<"zName", 0>> }
    [] slot = "xAccess" -> { <<"zName", 0, "pResOut">> }
    [] slot = "xFullPathname" -> { <<"zName", 64, "zOut">> }
    [] slot = "xRandomness" -> { <<8, "zBuf">> }
    [] slot = "xSleep" -> { <<1000>> }
    [] slot = "xCurrentTime" -> { <<"pJulianDay">> }
    [] slot = "xGetLastError" -> { <<8, "zBuf">> }
    [] slot = "xCurrentTimeInt64" -> { <<"pTime">> }

\* The arguments the engine passes after the sqlite3_file*.
FileArgs(slot) ==
  CASE slot \in {"xClose", "xSectorSize", "xDeviceCharacteristics",
                 "xShmBarrier"} -> { <<>> }
    [] slot \in {"xRead", "xWrite"} -> { <<"pData", 4096, 0>> }
    [] slot = "xTruncate" -> { <<0>> }
    [] slot = "xSync" -> { <<2>> }
    [] slot = "xFileSize" -> { <<"pSize">> }
    [] slot = "xLock" -> { <<1>> }
    [] slot \in {"xUnlock", "xShmUnmap"} -> { <<0>> }
    [] slot = "xCheckReservedLock" -> { <<"pResOut">> }
    [] slot = "xFileControl" -> { <<14, "pOut">> }
    [] slot = "xShmMap" -> { <<0, 32768, 1, "p">> }
    [] slot = "xShmLock" -> ShmLockArgs

(***************************************************************************)
(* Scheduling.  The native code runs on one thread: while a call made in   *)
(* the synchronous form, or native code of the engine, is running nothing  *)
(* else runs.  A call relayed in the asynchronous form is suspended from   *)
(* its start until the host has resolved it and it returns.                *)
(***************************************************************************)
InCall(c) == calls[c] # None
Suspended(c) ==
  /\ InCall(c)
  /\ calls[c].hosts # <<>>
  /\ calls[c].hosts[1].form = "async"
  /\ calls[c].phase # "returned"
CpuFree == regCall = None /\ \A c \in Conns : ~InCall(c) \/ Suspended(c)
FileBusy(h) ==
  \E c \in Conns : InCall(c) /\
     \/ calls[c].level = "file" /\ calls[c].target = h
     \/ calls[c].slot = "xOpen" /\ calls[c].a[3] = h
OpensInFlight ==
  Cardinality({ c \in Conns : InCall(c) /\ calls[c].entry = "libvfs_xOpen"
                               /\ calls[c].phase # "returned" })

\* The result a host method of this signature hands back.
HostResults(h) == IF h.sig = "vppp" THEN {SQLITE_OK} ELSE ResultCodes

\* The call record when the adapter entry is entered with arguments a: the
\* host method runs inside the call (synchronous form) or is pending.
NewCall(level, target, slot, entry, a) ==
  LET hs == Invoke(entry, a)
  IN  [ level |-> level, target |-> target, slot |-> slot, entry |-> entry,
        a |-> a, hosts |-> hs,
        phase |-> IF hs[1].form = "sync" THEN "running" ELSE "pending",
        outDone |-> FALSE, result |-> SQLITE_OK, value |-> SQLITE_OK ]

\* A call of a function of the engine's built-in VFS: it runs natively.
BuiltinCall(level, target, slot, entry, a, rc) ==
  [ level |-> level, target |-> target, slot |-> slot, entry |-> entry,
    a |-> a, hosts |-> <<>>, phase |-> "returned", outDone |-> TRUE,
    result |-> rc, value |-> rc ]

(***************************************************************************)
(* The asynchronous call form SIGNATURE##_async (declared in               *)
(* libadapters.h, lines 15-17, defined on the host side): it returns to    *)
(* the adapter once the host operation has resolved.                       *)
(***************************************************************************)
AsyncFormReturns_eager(call) == TRUE

AsyncFormReturns(call) == call.phase = "resolved"

(***************************************************************************)
(* libvfs.c, lines 183-224: libvfs_vfs_register.  mallocOk is whether      *)
(* sqlite3_malloc returns a record.  With no default VFS and a method bit  *)
(* unset, line 206 reads through a null pointer: the program traps, or the *)
(* member is indeterminate.  backupVfs and argAsyncMask are not members of *)
(* the record: they keep the local backupVfs and the argument asyncMask.   *)
(* The call that has just returned keeps its argument makeDefault.         *)
(* The caller's *ppVfs is null before the call.                            *)
(***************************************************************************)
\* Line 191: sqlite3_vfs_find(NULL) is the default VFS, the head of the
\* engine's list, or null when nothing is registered.
sqlite3_vfs_find_first(zVfs) == IF Len(vfs) > 0 THEN 1 ELSE defaultVfs

sqlite3_vfs_find(zVfs) == defaultVfs

\* Lines 194 and 223: the record is a new allocation, and sqlite3_vfs_register
\* links it into the engine's list; the records already there stay as they are.
sqlite3_vfs_register_replaceByName(registry, new) ==
  [ i \in 1..Len(registry) |->
      IF registry[i].zName = new.zName THEN new ELSE registry[i] ] \o <<new>>

sqlite3_vfs_register(registry, new) == Append(registry, new)

\* In place of a result code: the call trapped and did not return.
TRAPPED == -1

libvfs_vfs_register(zName, mxPathName, methodMask, asyncMask, makeDefault, mallocOk) ==
  LET backupVfs == sqlite3_vfs_find(NULL)
      nullRead == backupVfs = NOVFS /\
                  \E NAME \in VfsSlots : ~BitSet(methodMask, MethodEnum[NAME])
      new == [ zName |-> zName, mxPathname |-> mxPathName,
               base |-> [ NAME \in VfsSlots |->
                            register_METHOD(methodMask, backupVfs, NAME) ],
               methodMask |-> methodMask,
               asyncMask |-> StoredAsyncMask(methodMask, asyncMask),
               backupVfs |-> backupVfs,
               argAsyncMask |-> asyncMask ]
  IN  /\ ~crashed
      /\ CpuFree
      /\ Len(vfs) < MaxVfs
      /\ IF ~mallocOk
         THEN /\ regCall' = [ result |-> SQLITE_NOMEM, ppVfs |-> NULL,
                               makeDefault |-> makeDefault ]
              /\ UNCHANGED <<vfs, defaultVfs, crashed>>
         ELSE \/ /\ nullRead
                 /\ crashed' = TRUE
                 /\ regCall' = [ result |-> TRAPPED, ppVfs |-> NULL,
                                  makeDefault |-> makeDefault ]
                 /\ UNCHANGED <<vfs, defaultVfs>>
              \/ /\ vfs' = sqlite3_vfs_register(vfs, new)
                 /\ defaultVfs' = IF makeDefault \/ defaultVfs = NOVFS
                                  THEN Len(vfs) + 1 ELSE defaultVfs
                 /\ regCall' = [ result |-> SQLITE_OK, ppVfs |-> Len(vfs) + 1,
                                  makeDefault |-> makeDefault ]
                 /\ UNCHANGED crashed
      /\ UNCHANGED <<files, tables, calls, shmNative, shmHost>>
      /\ UNCHANGED hookVars

(***************************************************************************)
(* libadapters.c, lines 227-267: adapter_vfs_register.  Line 240 zeroes    *)
(* the record and lines 249-258 resolve seven members: xRandomness and     *)
(* xSleep stay null.  The rest is as in libvfs_vfs_register.               *)
(***************************************************************************)
adapter_METHOD(methodMask, backupVfs, NAME) ==
  IF NAME \notin AdapterVfsSlots THEN NULLFN
  ELSE IF BitSet(methodMask, AdapterMethodEnum[NAME])
       THEN "adapter_" \o NAME
       ELSE BackupEntry(backupVfs, NAME)

adapter_vfs_register(zName, mxPathName, methodMask, asyncMask, makeDefault, mallocOk) ==
  LET backupVfs == sqlite3_vfs_find(NULL)
      nullRead == backupVfs = NOVFS /\
                  \E NAME \in AdapterVfsSlots :
                    ~BitSet(methodMask, AdapterMethodEnum[NAME])
      new == [ zName |-> zName, mxPathname |-> mxPathName,
               base |-> [ NAME \in VfsSlots |->
                            adapter_METHOD(methodMask, backupVfs, NAME) ],
               methodMask |-> methodMask,
               asyncMask |-> asyncMask,
               backupVfs |-> backupVfs,
               argAsyncMask |-> asyncMask ]
  IN  /\ ~crashed
      /\ CpuFree
      /\ Len(vfs) < MaxVfs
      /\ IF ~mallocOk
         THEN /\ regCall' = [ result |-> SQLITE_NOMEM, ppVfs |-> NULL,
                               makeDefault |-> makeDefault ]
              /\ UNCHANGED <<vfs, defaultVfs, crashed>>
         ELSE \/ /\ nullRead
                 /\ crashed' = TRUE
                 /\ regCall' = [ result |-> TRAPPED, ppVfs |-> NULL,
                                  makeDefault |-> makeDefault ]
                 /\ UNCHANGED <<vfs, defaultVfs>>
              \/ /\ vfs' = sqlite3_vfs_register(vfs, new)
                 /\ defaultVfs' = IF makeDefault \/ defaultVfs = NOVFS
                                  THEN Len(vfs) + 1 ELSE defaultVfs
                 /\ regCall' = [ result |-> SQLITE_OK, ppVfs |-> Len(vfs) + 1,
                                  makeDefault |-> makeDefault ]
                 /\ UNCHANGED crashed
      /\ UNCHANGED <<files, tables, calls, shmNative, shmHost>>
      /\ UNCHANGED hookVars

(***************************************************************************)
(* The engine calls through a function pointer.  An adapter of libvfs.c    *)
(* or of libadapters.c                                                     *)
(* makes its relay call; a function of the built-in VFS runs natively; a   *)
(* call through a null or an indeterminate pointer traps.                  *)
(***************************************************************************)
StartCall(c, level, target, slot, entry, a) ==
  \/ /\ (IsRelay(entry) \/ IsAdapter(entry))
     /\ LET call == NewCall(level, target, slot, entry, a)
        IN  /\ calls' = [calls EXCEPT ![c] = call]
            /\ IF entry = "libvfs_xShmLock"
               THEN /\ shmNative' = Append(shmNative, a)
                    /\ shmHost' = shmHost \o [ i \in 1..Len(call.hosts) |->
                                                call.hosts[i].args ]
               ELSE UNCHANGED <<shmNative, shmHost>>
     /\ UNCHANGED crashed
  \/ /\ IsBuiltin(entry)
     /\ \E rc \in ResultCodes :
          calls' = [calls EXCEPT ![c] =
                      BuiltinCall(level, target, slot, entry, a, rc)]
     /\ UNCHANGED <<shmNative, shmHost, crashed>>
  \/ /\ entry \in {NULLFN, GARBAGE}
     /\ crashed' = TRUE
     /\ UNCHANGED <<calls, shmNative, shmHost>>

\* The engine calls member slot of the registered sqlite3_vfs v, passing v.
VfsCall(c, v, slot) ==
  /\ ~crashed
  /\ CpuFree
  /\ ~InCall(c)
  /\ v \in 1..Len(vfs)
  /\ slot \in VfsSlots \ {"xOpen"}
  /\ \E args \in VfsArgs(slot) :
       StartCall(c, "vfs", v, slot, vfs[v].base[slot], <<v>> \o args)
  /\ UNCHANGED <<vfs, defaultVfs, regCall, files, tables>>
  /\ UNCHANGED hookVars

\* The engine opens a file through instance v into the unused record pFile.
VfsOpenWithin(c, v, pFile, maxTables) ==
  /\ ~crashed
  /\ CpuFree
  /\ ~InCall(c)
  /\ v \in 1..Len(vfs)
  /\ files[pFile].pMethods = NULL
  /\ ~FileBusy(pFile)
  /\ IsRelay(vfs[v].base["xOpen"]) => Len(tables) + OpensInFlight < maxTables
  /\ StartCall(c, "vfs", v, "xOpen", vfs[v].base["xOpen"],
               <<v, "zName", pFile, 6, "pOutFlags">>)
  /\ files' = IF IsBuiltin(vfs[v].base["xOpen"]) /\ calls'[c].result = SQLITE_OK
              THEN [files EXCEPT ![pFile] =
                      [pMethods |-> BUILTIN_IO, pVfs |-> NULL]]
              ELSE files
  /\ UNCHANGED <<vfs, defaultVfs, regCall, tables>>
  /\ UNCHANGED hookVars

VfsOpen(c, v, pFile) == VfsOpenWithin(c, v, pFile, MaxTables)

(***************************************************************************)
(* The engine calls a member of an open handle's method table, passing the *)
(* handle.                                                                 *)
(***************************************************************************)
FileCall(c, pFile, slot) ==
  /\ ~crashed
  /\ CpuFree
  /\ ~InCall(c)
  /\ files[pFile].pMethods # NULL
  /\ ~FileBusy(pFile)
  /\ slot \in FileSlots
  /\ slot = "xShmLock" => Len(shmNative) < MaxShmLog
  /\ \E args \in FileArgs(slot) :
       StartCall(c, "file", pFile, slot, TableOf(pFile)[slot], <<pFile>> \o args)
  /\ UNCHANGED <<vfs, defaultVfs, regCall, files, tables>>
  /\ UNCHANGED hookVars

(***************************************************************************)
(* The host side of a call made in the asynchronous form: it writes the    *)
(* output parameters, then resolves with a result code.                    *)
(***************************************************************************)
HostWrite(c) ==
  /\ ~crashed
  /\ CpuFree
  /\ InCall(c)
  /\ calls[c].phase = "pending"
  /\ calls' = [calls EXCEPT ![c].phase = "written", ![c].outDone = TRUE]
  /\ UNCHANGED <<vfs, defaultVfs, regCall, files, tables,
                 shmNative, shmHost, crashed>>
  /\ UNCHANGED hookVars

HostResolve(c) ==
  /\ ~crashed
  /\ CpuFree
  /\ InCall(c)
  /\ calls[c].phase = "written"
  /\ \E rc \in HostResults(calls[c].hosts[1]) :
       calls' = [calls EXCEPT ![c].phase = "resolved", ![c].result = rc]
  /\ UNCHANGED <<vfs, defaultVfs, regCall, files, tables,
                 shmNative, shmHost, crashed>>
  /\ UNCHANGED hookVars

(***************************************************************************)
(* The relay call returns and the adapter runs to its end.  A call in the  *)
(* synchronous form returns when the host method has run: it has written   *)
(* the output parameters and hands back rc.  libvfs_xOpen (lines 125-148)  *)
(* then allocates and fills the method table, attaches it and the          *)
(* back-reference to the handle and returns the relayed result; line 127   *)
(* writes through a null pointer when sqlite3_malloc fails: the program    *)
(* traps, or the write lands in low memory and the handle gets a null      *)
(* table.                                                                  *)
(***************************************************************************)
Return(c) ==
  /\ ~crashed
  /\ InCall(c)
  /\ calls[c].hosts # <<>>
  /\ calls[c].phase # "returned"
  /\ calls[c].hosts[1].form = "async" => CpuFree /\ AsyncFormReturns(calls[c])
  /\ \E rc \in HostResults(calls[c].hosts[1]) :
       LET sync == calls[c].hosts[1].form = "sync"
           call == IF sync
                   THEN [calls[c] EXCEPT !.result = rc, !.outDone = TRUE]
                   ELSE calls[c]
           pVfsExt == call.a[1]
           pFile == call.a[3]
           done == [calls EXCEPT ![c] =
                      [call EXCEPT !.phase = "returned",
                                   !.value = AdapterReturn(call.entry, call.result)]]
       IN  /\ ~sync => rc = SQLITE_OK
           /\ \/ /\ call.entry = "libvfs_xOpen"
                 /\ \E mallocOk \in BOOLEAN :
                      IF mallocOk
                      THEN /\ tables' = xOpen_malloc(tables, IoMethods(pVfsExt)).heap
                           /\ files' = [files EXCEPT ![pFile] =
                                          [ pMethods |->
                                              xOpen_malloc(tables,
                                                IoMethods(pVfsExt)).pMethods,
                                            pVfs |-> pVfsExt ]]
                           /\ calls' = done
                           /\ UNCHANGED crashed
                      ELSE \/ /\ crashed' = TRUE
                              /\ UNCHANGED <<tables, files, calls>>
                           \/ /\ files' = [files EXCEPT ![pFile] =
                                             [ pMethods |-> NULL, pVfs |-> pVfsExt ]]
                              /\ calls' = done
                              /\ UNCHANGED <<tables, crashed>>
              \/ /\ call.entry # "libvfs_xOpen"
                 /\ calls' = done
                 /\ UNCHANGED <<files, tables, crashed>>
  /\ UNCHANGED <<vfs, defaultVfs, regCall, shmNative, shmHost>>
  /\ UNCHANGED hookVars

\* The host takes the value of libvfs_vfs_register and the instance handle.
RegisterReturn ==
  /\ ~crashed
  /\ regCall # None
  /\ regCall' = None
  /\ UNCHANGED <<vfs, defaultVfs, files, tables, calls, shmNative, shmHost,
                 crashed>>
  /\ UNCHANGED hookVars

\* The engine takes the value of the call and goes on; after xClose it
\* discards the handle.
Resume(c) ==
  /\ ~crashed
  /\ InCall(c)
  /\ calls[c].phase = "returned"
  /\ calls' = [calls EXCEPT ![c] = None]
  /\ files' = IF calls[c].slot = "xClose"
              THEN [files EXCEPT ![calls[c].target] = ClosedFile]
              ELSE files
  /\ UNCHANGED <<vfs, defaultVfs, regCall, tables, shmNative,
                 shmHost, crashed>>
  /\ UNCHANGED hookVars

(***************************************************************************)
(* The VFS relay as a state machine: one connection.                       *)
(***************************************************************************)
\* What a callback can be installed for, and the absence of a callback.
CallbackKinds ==
  {"commit", "progress", "authorizer", "trace", "function", "module"}
NoCallback == [ entries |-> {}, pArg |-> NULL ]
\* The hook families: what libhook.c, libprogress.c, libauthorizer.c and
\* libtrace.c install.
HookFamilies == {"commit", "update", "progress", "authorizer", "trace"}

\* The connections dbs are open and nothing is installed on them.
HookInitOn(dbs) ==
  /\ updateHook = [ db \in dbs |-> [ xCallback |-> NULLFN, pArg |-> NULL ] ]
  /\ hookRowid = <<0, 0, 0, 0>>
  /\ hookCall = None
  /\ callbacks = [ db \in dbs |-> [ k \in CallbackKinds |-> NoCallback ] ]
  /\ cbCall = None
  /\ lastInstall = [ db \in dbs |-> [ f \in HookFamilies |-> None ] ]

HookInit == HookInitOn({1})

Init ==
  /\ vfs = <<>>
  /\ defaultVfs \in {BUILTIN, NOVFS}
  /\ regCall = None
  /\ files = [ f \in Files |-> ClosedFile ]
  /\ tables = <<>>
  /\ calls = [ c \in Conns |-> None ]
  /\ shmNative = <<>>
  /\ shmHost = <<>>
  /\ crashed = FALSE
  /\ HookInit

Register(regs) ==
  \E r \in regs, makeDefault \in BOOLEAN, mallocOk \in BOOLEAN :
    libvfs_vfs_register(r.zName, r.mxPathName, r.methodMask, r.asyncMask,
                        makeDefault, mallocOk)
EngineVfsCall(conns, slots) ==
  \E c \in conns, v \in 1..MaxVfs, slot \in slots : VfsCall(c, v, slot)
EngineOpen(conns) ==
  \E c \in conns, v \in 1..MaxVfs, pFile \in Files : VfsOpen(c, v, pFile)
EngineFileCall(conns, slots) ==
  \E c \in conns, pFile \in Files, slot \in slots : FileCall(c, pFile, slot)
HostWrites == \E c \in Conns : HostWrite(c)
HostResolves == \E c \in Conns : HostResolve(c)
Returns == \E c \in Conns : Return(c)
Resumes == \E c \in Conns : Resume(c)

\* The methods the engine calls in this specification.
EngineVfsSlots == {"xDelete", "xSleep"}
EngineFileSlots == {"xClose", "xRead", "xWrite", "xShmBarrier"}

Next ==
  \/ Register(RegChoices)
  \/ RegisterReturn
  \/ EngineVfsCall({"c1"}, EngineVfsSlots)
  \/ EngineOpen({"c1"})
  \/ EngineFileCall({"c1"}, EngineFileSlots)
  \/ HostWrites
  \/ HostResolves
  \/ Returns
  \/ Resumes

Spec == Init /\ [][Next]_vars

(***************************************************************************)
(* Two connections on instances that mix synchronous and asynchronous      *)
(* methods: while one connection's call is suspended the other connection  *)
(* runs.                                                                   *)
(***************************************************************************)
ConcRegChoices ==
  { r \in RegChoices : r.asyncMask # 0 /\ r.methodMask # AllMethods }

InitBuiltin == Init /\ defaultVfs = BUILTIN

NextConc ==
  \/ Register(ConcRegChoices)
  \/ RegisterReturn
  \/ EngineVfsCall(Conns, {"xDelete"})
  \/ EngineOpen(Conns)
  \/ EngineFileCall(Conns, {"xClose", "xRead", "xFileSize"})
  \/ HostWrites
  \/ HostResolves
  \/ Returns
  \/ Resumes

SpecConc == InitBuiltin /\ [][NextConc]_vars

(***************************************************************************)
(* The shared-memory lock relay: the engine's xShmLock calls on handles of *)
(* instances that implement xShmLock, synchronous or asynchronous.         *)
(***************************************************************************)
ShmRegChoices ==
  { r \in RegChoices : BitSet(r.methodMask, MethodEnum["xShmLock"]) }

NextShm ==
  \/ Register(ShmRegChoices)
  \/ RegisterReturn
  \/ EngineOpen({"c1"})
  \/ EngineFileCall({"c1"}, {"xShmLock"})
  \/ HostWrites
  \/ HostResolves
  \/ Returns
  \/ Resumes

SpecShm == InitBuiltin /\ [][NextShm]_vars

(***************************************************************************)
(* Every adapter of libvfs.c: one instance that implements all 25         *)
(* methods, and the engine's calls of each of them.                        *)
(***************************************************************************)
AllRegChoices ==
  { [ zName |-> "A", mxPathName |-> 512,
      methodMask |-> AllMethods,
      asyncMask |-> MaskOf({"xOpen", "xClose", "xShmLock", "xShmBarrier"}) ],
    [ zName |-> "B", mxPathName |-> 64,
      methodMask |-> AllMethods,
      asyncMask |-> MaskOf({"xRead", "xWrite", "xSleep", "xFileControl"}) ] }

NextAll ==
  \/ (vfs = <<>> /\ Register(AllRegChoices))
  \/ RegisterReturn
  \/ EngineVfsCall({"c1"}, VfsSlots \ {"xOpen"})
  \/ EngineOpen({"c1"})
  \/ EngineFileCall({"c1"}, FileSlots)
  \/ HostWrites
  \/ HostResolves
  \/ Returns
  \/ Resumes

SpecAll == InitBuiltin /\ [][NextAll]_vars

(***************************************************************************)
(* Registrations, with or without a default VFS at the start, and the      *)
(* engine's calls of an instance-level method.                             *)
(***************************************************************************)
NextRegister ==
  \/ Register(RegChoices)
  \/ RegisterReturn
  \/ EngineVfsCall({"c1"}, {"xDelete"})
  \/ HostWrites
  \/ HostResolves
  \/ Returns
  \/ Resumes

SpecRegister == Init /\ [][NextRegister]_vars

(***************************************************************************)
(* The method tables of handles: one instance, handles opened together,    *)
(* closed and opened again.                                                *)
(***************************************************************************)
InitTables ==
  /\ vfs = <<>>
  /\ defaultVfs = BUILTIN
  /\ regCall = None
  /\ files = [ f \in 1..MaxHandles |-> ClosedFile ]
  /\ tables = <<>>
  /\ calls = [ c \in Conns |-> None ]
  /\ shmNative = <<>>
  /\ shmHost = <<>>
  /\ crashed = FALSE
  /\ HookInit

NextTables ==
  \/ (vfs = <<>> /\ Register(AllRegChoices))
  \/ RegisterReturn
  \/ \E pFile \in 1..MaxHandles : VfsOpenWithin("c1", 1, pFile, MaxOpens)
  \/ \E pFile \in 1..MaxHandles, slot \in {"xClose", "xSync"} :
        FileCall("c1", pFile, slot)
  \/ HostWrites
  \/ HostResolves
  \/ Returns
  \/ Resumes

SpecTables == InitTables /\ [][NextTables]_vars

(***************************************************************************)
(* Instances registered by adapter_vfs_register of libadapters.c, and the  *)
(* engine's calls of their instance-level methods.                         *)
(***************************************************************************)
\* The mask with exactly the bits of the methods in S set, libadapters.c.
RECURSIVE AdapterMaskOf(_)
AdapterMaskOf(S) ==
  IF S = {} THEN 0
  ELSE LET m == CHOOSE x \in S : TRUE
       IN  (2 ^ AdapterMethodEnum[m]) + AdapterMaskOf(S \ {m})

AdapterRegChoices ==
  { [ zName |-> "G", mxPathName |-> 64,
      methodMask |-> AdapterMaskOf(AdapterVfsSlots),
      asyncMask |-> AdapterMaskOf({"xCurrentTime"}) ],
    [ zName |-> "H", mxPathName |-> 64,
      methodMask |-> AdapterMaskOf({"xDelete", "xCurrentTime", "xRead"}),
      asyncMask |-> AdapterMaskOf({"xDelete"}) ],
    [ zName |-> "G", mxPathName |-> 512,
      methodMask |-> AdapterMaskOf({"xOpen", "xGetLastError"}),
      asyncMask |-> 0 ] }

RegisterAdapter(regs) ==
  \E r \in regs, makeDefault \in BOOLEAN, mallocOk \in BOOLEAN :
    adapter_vfs_register(r.zName, r.mxPathName, r.methodMask, r.asyncMask,
                         makeDefault, mallocOk)

NextAdapters ==
  \/ RegisterAdapter(AdapterRegChoices)
  \/ RegisterReturn
  \/ EngineVfsCall({"c1"}, {"xDelete", "xSleep", "xCurrentTime"})
  \/ HostWrites
  \/ HostResolves
  \/ Returns
  \/ Resumes

SpecAdapters == Init /\ [][NextAdapters]_vars

(***************************************************************************)
(* The update-hook relays.  A sqlite3_int64 is modelled by its four 16-bit *)
(* limbs in two's complement, least significant first; an int by its       *)
(* value.                                                                  *)
(***************************************************************************)
LimbBase == 65536
LimbSign == 32768

\* The limbs the engine's rowids are built from.
LimbValues == {0, LimbSign - 1, LimbBase - 1}
\* The rowids the engine reports: among them 0, -1, 2^31 - 1, 2^63 - 1, and
\* 2^31 and -2^63.
RowIds ==
  { <<a, b, c, d>> : a \in LimbValues, b \in LimbValues,
                     c \in LimbValues, d \in LimbValues }
  \cup { <<0, LimbSign, 0, 0>>, <<0, 0, 0, LimbSign>> }

\* a & b on 16-bit limbs.
RECURSIVE And16(_, _, _)
And16(a, b, n) ==
  IF n = 0 \/ a = 0 \/ b = 0 THEN 0
  ELSE (IF a % 2 = 1 /\ b % 2 = 1 THEN 1 ELSE 0)
       + 2 * And16(a \div 2, b \div 2, n - 1)

\* x & m on sqlite3_int64.
And64(x, m) == [ i \in 1..4 |-> And16(x[i], m[i], 16) ]

\* x >> 32 on an unsigned 64-bit value (the masked rowid has the type of the
\* mask, unsigned long long): zeros are shifted in.
Shr32(x) == <<x[3], x[4], 0, 0>>

\* The conversion of a 64-bit value to int: its low 32 bits, signed.
ToInt(x) ==
  (IF x[2] >= LimbSign THEN x[2] - LimbBase ELSE x[2]) * LimbBase + x[1]

\* 0xFFFFFFFF00000000LL and 0xFFFFFFFFLL.
MaskHi == <<0, 0, LimbBase - 1, LimbBase - 1>>
MaskLo == <<LimbBase - 1, LimbBase - 1, 0, 0>>

(***************************************************************************)
(* libhook.c, lines 24-25, and libfunction.c, lines 23-24: the two halves  *)
(* of the rowid.                                                           *)
(***************************************************************************)
hi32_noShift(rowid) == ToInt(And64(rowid, MaskHi))

hi32(rowid) == ToInt(Shr32(And64(rowid, MaskHi)))

lo32(rowid) == ToInt(And64(rowid, MaskLo))

\* The user data of an installation: what the int at pApp holds.
AppData == [ p \in {1, 2} |-> p - 1 ]
AppPointers == {NULL} \cup DOMAIN AppData

(***************************************************************************)
(* libhook.c, lines 8-11: CALL_JS, and lines 18-28: libhook_xUpdateHook.   *)
(***************************************************************************)
CALL_JS(asyncFlags, SIGNATURE, KEY, args) ==
  [ fn |-> IF asyncFlags # 0 THEN SIGNATURE \o "_async" ELSE SIGNATURE,
    args |-> <<KEY>> \o args ]

libhook_xUpdateHook_highFirst(pApp, iUpdateType, dbName, tblName, rowid) ==
  LET asyncFlags == IF pApp # NULL THEN AppData[pApp] ELSE 0
  IN  CALL_JS(asyncFlags, "vppippii", pApp,
              <<pApp, iUpdateType, dbName, tblName, hi32(rowid), lo32(rowid)>>)

libhook_xUpdateHook(pApp, iUpdateType, dbName, tblName, rowid) ==
  LET asyncFlags == IF pApp # NULL THEN AppData[pApp] ELSE 0
  IN  CALL_JS(asyncFlags, "vppippii", pApp,
              <<pApp, iUpdateType, dbName, tblName, lo32(rowid), hi32(rowid)>>)

\* libfunction.c, lines 22-26: xUpdateHook.
xUpdateHook(pApp, updateType, dbName, tblName, rowid) ==
  [ fn |-> "jsUpdateHook",
    args |-> <<pApp, updateType, dbName, tblName, lo32(rowid), hi32(rowid)>> ]

\* libhook.c, lines 34-36: libhook_update_hook.
libhook_update_hook(db, flag, pApp) ==
  /\ updateHook' = [updateHook EXCEPT ![db] =
                      [ xCallback |-> IF flag # 0 THEN "libhook_xUpdateHook"
                                      ELSE NULLFN,
                        pArg |-> pApp ]]
  /\ UNCHANGED <<hookRowid, hookCall, callbacks, cbCall>>
  /\ UNCHANGED vfsVars

\* libfunction.c, lines 46-50: update_hook.
update_hook(db, pApp) ==
  /\ updateHook' = [updateHook EXCEPT ![db] =
                      [ xCallback |-> "xUpdateHook", pArg |-> pApp ]]
  /\ UNCHANGED <<hookRowid, hookCall, callbacks, cbCall>>
  /\ UNCHANGED vfsVars

\* The engine reports the update of row rowid to the installed hook.
FireUpdateHook(db, iUpdateType, rowid) ==
  /\ updateHook[db].xCallback # NULLFN
  /\ hookRowid' = rowid
  /\ hookCall' =
       IF updateHook[db].xCallback = "libhook_xUpdateHook"
       THEN libhook_xUpdateHook(updateHook[db].pArg, iUpdateType, "main", "t",
                                rowid)
       ELSE xUpdateHook(updateHook[db].pArg, iUpdateType, "main", "t", rowid)
  /\ UNCHANGED <<updateHook, callbacks, cbCall>>
  /\ UNCHANGED vfsVars

InstallLibhook ==
  /\ \E flag \in {0, 1}, pApp \in AppPointers : libhook_update_hook(1, flag, pApp)
  /\ UNCHANGED lastInstall
InstallLibfunction ==
  /\ \E pApp \in AppPointers : update_hook(1, pApp)
  /\ UNCHANGED lastInstall
\* An insertion (SQLITE_INSERT).
EngineUpdates ==
  /\ \E rowid \in RowIds : FireUpdateHook(1, 18, rowid)
  /\ UNCHANGED lastInstall

NextHook ==
  \/ InstallLibhook
  \/ InstallLibfunction
  \/ EngineUpdates

SpecHook == InitBuiltin /\ [][NextHook]_vars

(***************************************************************************)
(* The other callbacks.  libhook.c, libprogress.c, libauthorizer.c and     *)
(* libtrace.c read the int at pApp and call through CALL_JS (PROGRESS_JS   *)
(* in libprogress.c, the same text); libfunction.c and libmodule.c call    *)
(* the host's functions directly.                                          *)
(***************************************************************************)
MaxInstalled == 1  \* kinds of callback installed together

\* libhook.c, lines 13-16.
libhook_xCommitHook(pApp) ==
  LET asyncFlags == IF pApp # NULL THEN AppData[pApp] ELSE 0
  IN  CALL_JS(asyncFlags, "ipp", pApp, <<pApp>>)

\* libprogress.c, lines 8-11 and 13-16.
PROGRESS_JS(asyncFlags, SIGNATURE, KEY, args) ==
  [ fn |-> IF asyncFlags # 0 THEN SIGNATURE \o "_async" ELSE SIGNATURE,
    args |-> <<KEY>> \o args ]

libprogress_xProgress(pApp) ==
  LET asyncFlags == IF pApp # NULL THEN AppData[pApp] ELSE 0
  IN  PROGRESS_JS(asyncFlags, "ipp", pApp, <<pApp>>)

\* libauthorizer.c, lines 13-22.
libauthorizer_xAuthorize_sync(pApp, iAction, param3, param4, param5, param6) ==
  CALL_JS(0, "ippipppp", pApp,
          <<pApp, iAction, param3, param4, param5, param6>>)

libauthorizer_xAuthorize(pApp, iAction, param3, param4, param5, param6) ==
  LET asyncFlags == IF pApp # NULL THEN AppData[pApp] ELSE 0
  IN  CALL_JS(asyncFlags, "ippipppp", pApp,
              <<pApp, iAction, param3, param4, param5, param6>>)

\* libtrace.c, lines 11-14.
libtrace_xTrace(opCode, pApp, P, X) ==
  LET asyncFlags == IF pApp # NULL THEN AppData[pApp] ELSE 0
  IN  CALL_JS(asyncFlags, "ippipp", pApp, <<pApp, opCode, P, X>>)

\* The user data of the function the context pContext belongs to; a context
\* is identified with the connection its function is created on.
sqlite3_user_data(pContext) == callbacks[pContext]["function"].pArg

\* libfunction.c, lines 10-20.
xFunc(pContext, iCount, ppValues) ==
  [ fn |-> "jsFunc",
    args |-> <<sqlite3_user_data(pContext), pContext, iCount, ppValues>> ]

xStep(pContext, iCount, ppValues) ==
  [ fn |-> "jsStep",
    args |-> <<sqlite3_user_data(pContext), pContext, iCount, ppValues>> ]

xFinal(pContext) ==
  [ fn |-> "jsFinal", args |-> <<sqlite3_user_data(pContext), pContext>> ]

(***************************************************************************)
(* libmodule.c, lines 36-71.  pVTab and pCursor are what sqlite3_malloc    *)
(* returned, result what the host's function returns.  xCreate and         *)
(* xConnect free the record and clear *ppVTab when the host fails; xOpen   *)
(* leaves *ppCursor as allocated.  out is the caller's pointer after the   *)
(* call and live whether the allocation is still held.                     *)
(***************************************************************************)
xCreate_keepOnFailure(db, pAux, argc, argv, pVTab, pzErr, result) ==
  [ fn |-> "modCreate", args |-> <<db, pAux, argc, argv, pVTab, pzErr>>,
    result |-> result, out |-> pVTab, live |-> pVTab # NULL ]

xCreate(db, pAux, argc, argv, pVTab, pzErr, result) ==
  [ fn |-> "modCreate", args |-> <<db, pAux, argc, argv, pVTab, pzErr>>,
    result |-> result,
    out |-> IF result # SQLITE_OK THEN NULL ELSE pVTab,
    live |-> pVTab # NULL /\ result = SQLITE_OK ]

xConnect(db, pAux, argc, argv, pVTab, pzErr, result) ==
  [ fn |-> "modConnect", args |-> <<db, pAux, argc, argv, pVTab, pzErr>>,
    result |-> result,
    out |-> IF result # SQLITE_OK THEN NULL ELSE pVTab,
    live |-> pVTab # NULL /\ result = SQLITE_OK ]

xOpen(pVTab, pCursor, result) ==
  [ fn |-> "modOpen", args |-> <<pVTab, pCursor>>,
    result |-> result,
    out |-> pCursor,
    live |-> pCursor # NULL ]

\* libmodule.c, lines 138-157: the members of the sqlite3_module.
ModuleEntries(flags) ==
  (IF BitSet(flags, 0) THEN {"xCreate"} ELSE {})
  \cup {"xConnect", "modBestIndex", "modDisconnect", "modDestroy", "xOpen",
        "modClose", "modFilter", "modNext", "modEof", "modColumn", "modRowid"}
  \cup (IF BitSet(flags, 12) THEN {"modUpdate"} ELSE {})
  \cup (IF BitSet(flags, 13) THEN {"modBegin"} ELSE {})
  \cup (IF BitSet(flags, 14) THEN {"modSync"} ELSE {})
  \cup (IF BitSet(flags, 15) THEN {"modCommit"} ELSE {})
  \cup (IF BitSet(flags, 16) THEN {"modRollback"} ELSE {})
  \cup (IF BitSet(flags, 18) THEN {"modRename"} ELSE {})

\* The number of kinds of callback installed on connection db, the update
\* hook among them.
Installed(db) ==
  Cardinality({ k \in CallbackKinds : callbacks[db][k] # NoCallback })
  + (IF updateHook[db].xCallback # NULLFN THEN 1 ELSE 0)

\* The installation calls: each replaces the callback of its kind on the
\* connection it is given.
Install(db, kind, entries, pApp) ==
  /\ ~crashed
  /\ (callbacks[db][kind] = NoCallback /\ entries # {}) =>
        Installed(db) < MaxInstalled
  /\ callbacks' = [callbacks EXCEPT ![db][kind] = [ entries |-> entries,
                                                     pArg |-> pApp ]]
  /\ UNCHANGED <<updateHook, hookRowid, hookCall, cbCall>>
  /\ UNCHANGED vfsVars

\* sqlite3_progress_handler, called at libprogress.c line 23: the handler is
\* disabled, and its argument dropped, when nOps is less than 1.
sqlite3_progress_handler(db, nOps, xProgress, pArg) ==
  IF nOps > 0
  THEN Install(db, "progress", xProgress, pArg)
  ELSE Install(db, "progress", {}, NULL)

\* sqlite3_trace_v2, called at libtrace.c line 18: tracing is disabled when
\* the mask is zero; the argument is kept.
sqlite3_trace_v2(db, mTrace, xTrace, pArg) ==
  Install(db, "trace", IF mTrace = 0 THEN {} ELSE xTrace, pArg)

\* libhook.c, lines 30-32.
libhook_commit_hook(db, xCommitHook, pApp) ==
  Install(db, "commit",
          IF xCommitHook # 0 THEN {"libhook_xCommitHook"} ELSE {}, pApp)

\* libprogress.c, lines 18-28.
libprogress_progress_handler(db, nOps, xProgress, pApp) ==
  sqlite3_progress_handler(db, nOps,
          IF xProgress # 0 THEN {"libprogress_xProgress"} ELSE {}, pApp)

\* libauthorizer.c, lines 24-32.
libauthorizer_set_authorizer_always(db, xAuthorizer, pApp) ==
  Install(db, "authorizer", {"libauthorizer_xAuthorize"}, pApp)

libauthorizer_set_authorizer(db, xAuthorizer, pApp) ==
  Install(db, "authorizer",
          IF xAuthorizer # 0 THEN {"libauthorizer_xAuthorize"} ELSE {}, pApp)

\* libtrace.c, lines 16-19.
libtrace_trace(db, mTrace, xTrace, pApp) ==
  sqlite3_trace_v2(db, mTrace,
                   IF xTrace # 0 THEN {"libtrace_xTrace"} ELSE {}, pApp)

\* libfunction.c, lines 28-44.
create_function(db, zFunctionName, nArg, eTextRep, pApp, functionType) ==
  Install(db, "function",
          IF functionType = 0 THEN {"xFunc"} ELSE {"xStep", "xFinal"}, pApp)

\* libmodule.c, lines 124-159.  Line 137 writes through a null pointer when
\* sqlite3_malloc fails: the program traps, or it goes on.
create_module(db, zName, pClientData, flags, mallocOk) ==
  \/ Install(db, "module", ModuleEntries(flags), pClientData)
  \/ /\ ~mallocOk
     /\ ~crashed
     /\ crashed' = TRUE
     /\ UNCHANGED <<vfs, defaultVfs, regCall, files, tables, calls,
                    shmNative, shmHost>>
     /\ UNCHANGED hookVars

\* The host call the callback entry of kind makes when the engine calls it;
\* pAlloc is what sqlite3_malloc returns and result what the host returns.
CallbackCall(db, kind, entry, pAlloc, result) ==
  LET pApp == callbacks[db][kind].pArg
  IN  CASE entry = "libhook_xCommitHook" -> libhook_xCommitHook(pApp)
        [] entry = "libprogress_xProgress" -> libprogress_xProgress(pApp)
        [] entry = "libauthorizer_xAuthorize" ->
             libauthorizer_xAuthorize(pApp, 21, "t", "c", "main", "")
        [] entry = "libtrace_xTrace" -> libtrace_xTrace(1, pApp, "P", "X")
        [] entry = "xFunc" -> xFunc(db, 1, "ppValues")
        [] entry = "xStep" -> xStep(db, 1, "ppValues")
        [] entry = "xFinal" -> xFinal(db)
        [] entry = "xCreate" ->
             xCreate(db, pApp, 3, "argv", pAlloc, "pzErr", result)
        [] entry = "xConnect" ->
             xConnect(db, pApp, 3, "argv", pAlloc, "pzErr", result)
        [] entry = "xOpen" -> xOpen(1, pAlloc, result)
        [] OTHER -> [ fn |-> entry, args |-> <<1>> ]

\* The engine calls an installed callback.
FireCallback(db, kind, entry, pAlloc, result) ==
  /\ ~crashed
  /\ entry \in callbacks[db][kind].entries
  /\ entry \notin {"xCreate", "xConnect", "xOpen"} =>
        pAlloc = NULL /\ result = SQLITE_OK
  /\ cbCall' = [ kind |-> kind, entry |-> entry,
                 pArg |-> callbacks[db][kind].pArg,
                 host |-> CallbackCall(db, kind, entry, pAlloc, result) ]
  /\ UNCHANGED <<updateHook, hookRowid, hookCall, callbacks>>
  /\ UNCHANGED vfsVars

InstallCommitHook ==
  /\ \E flag \in {0, 1}, pApp \in AppPointers :
       (flag = 0 => pApp = NULL) /\ libhook_commit_hook(1, flag, pApp)
  /\ UNCHANGED lastInstall
InstallProgress ==
  /\ \E flag \in {0, 1}, pApp \in AppPointers :
       (flag = 0 => pApp = NULL)
         /\ libprogress_progress_handler(1, 100, flag, pApp)
  /\ UNCHANGED lastInstall
InstallAuthorizer ==
  /\ \E flag \in {0, 1}, pApp \in AppPointers :
       (flag = 0 => pApp = NULL) /\ libauthorizer_set_authorizer(1, flag, pApp)
  /\ UNCHANGED lastInstall
InstallTrace ==
  /\ \E flag \in {0, 1}, pApp \in AppPointers :
       (flag = 0 => pApp = NULL) /\ libtrace_trace(1, 1, flag, pApp)
  /\ UNCHANGED lastInstall
InstallFunction ==
  /\ \E functionType \in {0, 1}, pApp \in AppPointers :
       create_function(1, "f", 1, 1, pApp, functionType)
  /\ UNCHANGED lastInstall
InstallModule ==
  /\ \E flags \in {0, 4097}, pClientData \in AppPointers, mallocOk \in BOOLEAN :
       create_module(1, "m", pClientData, flags, mallocOk)
  /\ UNCHANGED lastInstall
\* The insertion of row 2^32 - 1.
EngineUpdate ==
  /\ FireUpdateHook(1, 18, <<LimbBase - 1, LimbBase - 1, 0, 0>>)
  /\ UNCHANGED lastInstall
EngineCallbacks ==
  /\ \E kind \in CallbackKinds, pAlloc \in {NULL, 1}, result \in ResultCodes :
       \E entry \in callbacks[1][kind].entries :
         FireCallback(1, kind, entry, pAlloc, result)
  /\ UNCHANGED lastInstall

NextCallbacks ==
  \/ (updateHook[1].xCallback = NULLFN => Installed(1) < MaxInstalled)
        /\ InstallLibhook
  \/ (updateHook[1].xCallback = NULLFN => Installed(1) < MaxInstalled)
        /\ InstallLibfunction
  \/ EngineUpdate
  \/ InstallCommitHook
  \/ InstallProgress
  \/ InstallAuthorizer
  \/ InstallTrace
  \/ InstallFunction
  \/ InstallModule
  \/ EngineCallbacks

SpecCallbacks == InitBuiltin /\ [][NextCallbacks]_vars

(***************************************************************************)
(* The installation calls of the hook families on several connections.     *)
(* The host calls libhook_commit_hook, libhook_update_hook and update_hook *)
(* (libfunction.c), libprogress_progress_handler,                          *)
(* libauthorizer_set_authorizer and libtrace_trace with any flag, any      *)
(* user data and any count or mask, in any order; lastInstall keeps the    *)
(* arguments of the most recent call for each connection and family.      *)
(***************************************************************************)
MaxDbs == 2     \* database connections
MaxHooked == 2  \* hooks that installation calls are made for

InitInstall ==
  /\ vfs = <<>>
  /\ defaultVfs = BUILTIN
  /\ regCall = None
  /\ files = [ f \in Files |-> ClosedFile ]
  /\ tables = <<>>
  /\ calls = [ c \in Conns |-> None ]
  /\ shmNative = <<>>
  /\ shmHost = <<>>
  /\ crashed = FALSE
  /\ HookInitOn(1..MaxDbs)

Hooked ==
  Cardinality({ h \in (DOMAIN lastInstall) \X HookFamilies :
                lastInstall[h[1]][h[2]] # None })

\* The call is the most recent one for family on db.
NoteInstall(db, family, call) ==
  /\ lastInstall[db][family] = None => Hooked < MaxHooked
  /\ lastInstall' = [lastInstall EXCEPT ![db][family] = call]

\* The user data the host passes: none, or its record.
InstallPointers == {NULL, 1}

HostCommitHook ==
  \E db \in 1..MaxDbs, flag \in {0, 1}, pApp \in InstallPointers :
    /\ libhook_commit_hook(db, flag, pApp)
    /\ NoteInstall(db, "commit",
                   [ fn |-> "libhook_commit_hook", flag |-> flag, pApp |-> pApp ])
HostUpdateHook ==
  \E db \in 1..MaxDbs, flag \in {0, 1}, pApp \in InstallPointers :
    /\ libhook_update_hook(db, flag, pApp)
    /\ NoteInstall(db, "update",
                   [ fn |-> "libhook_update_hook", flag |-> flag, pApp |-> pApp ])
HostFunctionUpdateHook ==
  \E db \in 1..MaxDbs, pApp \in InstallPointers :
    /\ update_hook(db, pApp)
    /\ NoteInstall(db, "update", [ fn |-> "update_hook", pApp |-> pApp ])
HostProgressHandler ==
  \E db \in 1..MaxDbs, nOps \in {0, 100}, flag \in {0, 1},
     pApp \in InstallPointers :
    /\ libprogress_progress_handler(db, nOps, flag, pApp)
    /\ NoteInstall(db, "progress",
                   [ fn |-> "libprogress_progress_handler", nOps |-> nOps,
                     flag |-> flag, pApp |-> pApp ])
HostSetAuthorizer ==
  \E db \in 1..MaxDbs, flag \in {0, 1}, pApp \in InstallPointers :
    /\ libauthorizer_set_authorizer(db, flag, pApp)
    /\ NoteInstall(db, "authorizer",
                   [ fn |-> "libauthorizer_set_authorizer", flag |-> flag,
                     pApp |-> pApp ])
HostTrace ==
  \E db \in 1..MaxDbs, mTrace \in {0, 1}, flag \in {0, 1},
     pApp \in InstallPointers :
    /\ libtrace_trace(db, mTrace, flag, pApp)
    /\ NoteInstall(db, "trace",
                   [ fn |-> "libtrace_trace", mTrace |-> mTrace,
                     flag |-> flag, pApp |-> pApp ])

NextInstall ==
  \/ HostCommitHook
  \/ HostUpdateHook
  \/ HostFunctionUpdateHook
  \/ HostProgressHandler
  \/ HostSetAuthorizer
  \/ HostTrace

SpecInstall == InitInstall /\ [][NextInstall]_vars

(***************************************************************************)
(* Properties.                                                             *)
(***************************************************************************)
\* The handles whose method table was built by libvfs_xOpen.
RelayHandles == { f \in Files : files[f].pMethods \in 1..Len(tables) }

\* a is a subset of m, as bitmasks over the method enumeration.
MaskSubset(a, m) ==
  \A NAME \in DOMAIN MethodEnum :
    BitSet(a, MethodEnum[NAME]) => BitSet(m, MethodEnum[NAME])

\* Connection c's call of open on instance v has returned success.
Opened(c, v) ==
  /\ InCall(c)
  /\ calls[c].slot = "xOpen"
  /\ calls[c].target = v
  /\ calls[c].phase = "returned"
  /\ calls[c].value = SQLITE_OK

\* The instance of the scenario: read and write only, nothing asynchronous,
\* the process default.
IsReadWriteDefault(v) ==
  /\ vfs[v].methodMask = MaskOf({"xRead", "xWrite"})
  /\ vfs[v].asyncMask = 0
  /\ defaultVfs = v

\* A method table that relays read and write and has every other entry null.
ReadWriteTable(t) ==
  \A NAME \in FileSlots :
    t[NAME] = IF NAME \in {"xRead", "xWrite"} THEN "libvfs_" \o NAME ELSE NULLFN

(***************************************************************************)
(* C1: for every handle opened through libvfs_xOpen and every per-handle   *)
(* method whose bit is 0 in the methodMask of the handle's instance, the   *)
(* entry of the handle's method table is null, and every host call made    *)
(* for a call on the handle is for a method whose bit is 1.                *)
(***************************************************************************)
C1_UnimplementedIsNull ==
  /\ \A f \in RelayHandles, NAME \in FileSlots :
       ~BitSet(vfs[files[f].pVfs].methodMask, MethodEnum[NAME])
         => tables[files[f].pMethods][NAME] = NULLFN
  /\ \A c \in Conns :
       (InCall(c) /\ calls[c].level = "file"
          /\ calls[c].target \in RelayHandles) =>
         \A i \in 1..Len(calls[c].hosts) :
           BitSet(vfs[files[calls[c].target].pVfs].methodMask,
                  MethodEnum[calls[c].hosts[i].method])

\* A handle of an instance that leaves out a per-handle method has a call
\* relayed to the host.
C1_Witness ==
  \E f \in RelayHandles, c \in Conns :
    /\ \E NAME \in FileSlots :
         ~BitSet(vfs[files[f].pVfs].methodMask, MethodEnum[NAME])
    /\ InCall(c)
    /\ calls[c].level = "file"
    /\ calls[c].target = f
    /\ calls[c].hosts # <<>>

(***************************************************************************)
(* C2, as stated: after instance A is registered with read and write only, *)
(* nothing asynchronous, as the default, a successful open on A yields a   *)
(* handle whose method table relays read and write and has every other     *)
(* entry null.                                                             *)
(***************************************************************************)
C2_OpenYieldsReadWriteTable ==
  \A c \in Conns, v \in 1..Len(vfs) :
    (Opened(c, v) /\ IsReadWriteDefault(v)) =>
      /\ calls[c].a[3] \in RelayHandles
      /\ ReadWriteTable(tables[files[calls[c].a[3]].pMethods])

(***************************************************************************)
(* C2, amended: A's open member is the one of the default VFS at A's       *)
(* registration.  If that member is libvfs_xOpen, a successful open on A   *)
(* yields a handle whose table relays read and write and has every other   *)
(* entry null, or, when the table could not be allocated, a handle with no *)
(* table; if it is the built-in open, the handle has the built-in table.   *)
(***************************************************************************)
C2_OpenFollowsInheritedOpen ==
  \A c \in Conns, v \in 1..Len(vfs) :
    (Opened(c, v) /\ IsReadWriteDefault(v)) =>
      LET b == vfs[v].backupVfs
          pMethods == files[calls[c].a[3]].pMethods
      IN  /\ b # NOVFS
          /\ IF b # BUILTIN /\ vfs[b].base["xOpen"] = "libvfs_xOpen"
             THEN \/ pMethods = NULL
                  \/ /\ pMethods \in 1..Len(tables)
                     /\ ReadWriteTable(tables[pMethods])
             ELSE pMethods = BUILTIN_IO

\* A was registered over a default whose open is libvfs_xOpen, and open on A
\* has built the table.
C2_Witness ==
  \E c \in Conns, v \in 1..Len(vfs) :
    /\ Opened(c, v)
    /\ IsReadWriteDefault(v)
    /\ calls[c].entry = "libvfs_xOpen"
    /\ calls[c].a[3] \in RelayHandles

(***************************************************************************)
(* C3, as stated: when B was registered while the relay instance A was the *)
(* default and B is not the default, a call on B of an instance-level      *)
(* method B does not implement does what the call does on A: the host call *)
(* is keyed on A, names the method and has the form A's asyncMask selects; *)
(* or, where A does not relay the method, no host call is made.            *)
(***************************************************************************)
C3_FallsThroughToA ==
  \A c \in Conns :
    (InCall(c) /\ calls[c].level = "vfs") =>
      LET B == calls[c].target
          A == vfs[B].backupVfs
          NAME == calls[c].slot
      IN  (A \in 1..Len(vfs) /\ defaultVfs # B
             /\ ~BitSet(vfs[B].methodMask, MethodEnum[NAME])) =>
            IF IsRelay(vfs[A].base[NAME])
            THEN /\ Len(calls[c].hosts) = 1
                 /\ calls[c].hosts[1].key = A
                 /\ calls[c].hosts[1].method = NAME
                 /\ calls[c].hosts[1].form =
                      IF BitSet(vfs[A].asyncMask, MethodEnum[NAME])
                      THEN "async" ELSE "sync"
            ELSE calls[c].hosts = <<>>

(***************************************************************************)
(* C4, as stated: every registered instance has asyncMask a subset of      *)
(* methodMask.                                                             *)
(***************************************************************************)
C4_AsyncSubsetOfImplemented ==
  \A v \in 1..Len(vfs) : MaskSubset(vfs[v].asyncMask, vfs[v].methodMask)

(***************************************************************************)
(* C4, amended: registration keeps the asyncMask argument as it is, and    *)
(* a call that returns fails only when the allocation fails: the           *)
(* instance's asyncMask is a subset of its methodMask exactly when the     *)
(* argument was.                                                           *)
(***************************************************************************)
C4_AsyncMaskStoredAsGiven ==
  /\ \A v \in 1..Len(vfs) : vfs[v].asyncMask = vfs[v].argAsyncMask
  /\ (regCall # None /\ regCall.result # TRAPPED) =>
       IF regCall.result = SQLITE_OK
       THEN regCall.ppVfs = Len(vfs)
       ELSE regCall.result = SQLITE_NOMEM /\ regCall.ppVfs = NULL

\* A registration whose asyncMask is not a subset of its methodMask has
\* returned success.
C4_Witness ==
  /\ regCall # None
  /\ regCall.result = SQLITE_OK
  /\ ~MaskSubset(vfs[regCall.ppVfs].argAsyncMask, vfs[regCall.ppVfs].methodMask)

\* The instance a call is made on: the sqlite3_vfs the engine passes, or the
\* one the handle it passes refers back to.
Owner(call) ==
  IF call.level = "file" THEN files[call.target].pVfs ELSE call.target

\* Host call h is the relay of method NAME on instance V with arguments a.
RelayOf(h, V, NAME, a) ==
  /\ h.form = IF BitSet(vfs[V].asyncMask, MethodEnum[NAME])
              THEN "async" ELSE "sync"
  /\ h.key = V
  /\ h.method = NAME
  /\ h.args = a

(***************************************************************************)
(* C5: the host call of a relayed call of method m on instance V has the   *)
(* asynchronous form iff bit m of V.asyncMask is set, the synchronous form *)
(* otherwise, and carries V, the name of m and the arguments of the call:  *)
(* for every call in progress; for each of the 9 instance-level adapters   *)
(* on an instance when its registration returns (its masks never change    *)
(* afterwards); and for each of the 16 per-handle adapters on a handle     *)
(* when libvfs_xOpen returns it (its back-reference never changes while it *)
(* is open).                                                               *)
(***************************************************************************)
C5_FormFollowsAsyncBit ==
  /\ \A c \in Conns :
       (InCall(c) /\ IsRelay(calls[c].entry)) =>
         /\ Len(calls[c].hosts) = 1
         /\ RelayOf(calls[c].hosts[1], Owner(calls[c]), calls[c].slot, calls[c].a)
  /\ (regCall # None /\ regCall.result = SQLITE_OK) =>
       LET v == regCall.ppVfs
       IN  /\ \A NAME \in VfsSlots \ {"xOpen"} :
                \A args \in VfsArgs(NAME) :
                  RelayOf(Invoke("libvfs_" \o NAME, <<v>> \o args)[1], v, NAME,
                          <<v>> \o args)
           /\ \A f \in Files :
                RelayOf(Invoke("libvfs_xOpen", <<v, "zName", f, 6, "pOutFlags">>)[1],
                        v, "xOpen", <<v, "zName", f, 6, "pOutFlags">>)
  /\ \A c \in Conns :
       (InCall(c) /\ calls[c].entry = "libvfs_xOpen"
          /\ calls[c].phase = "returned" /\ calls[c].a[3] \in RelayHandles) =>
         LET f == calls[c].a[3]
         IN  \A NAME \in FileSlots :
               \A args \in FileArgs(NAME) :
                 RelayOf(Invoke("libvfs_" \o NAME, <<f>> \o args)[1],
                         files[f].pVfs, NAME, <<f>> \o args)

\* A call is relayed in the asynchronous form on an instance that has both
\* asynchronous and synchronous methods.
C5_Witness ==
  \E c \in Conns :
    /\ InCall(c)
    /\ IsRelay(calls[c].entry)
    /\ calls[c].hosts[1].form = "async"
    /\ \E NAME \in DOMAIN MethodEnum :
         /\ BitSet(vfs[Owner(calls[c])].methodMask, MethodEnum[NAME])
         /\ ~BitSet(vfs[Owner(calls[c])].asyncMask, MethodEnum[NAME])

(***************************************************************************)
(* C6: a relayed call makes exactly one host call, and the value an        *)
(* adapter with an integer result returns is the result code of that host  *)
(* call, whatever it is; libvfs_xOpen included.                            *)
(***************************************************************************)
C6_ResultVerbatim ==
  \A c \in Conns :
    (InCall(c) /\ IsRelay(calls[c].entry)) =>
      /\ Len(calls[c].hosts) = 1
      /\ (calls[c].phase = "returned" /\ calls[c].entry # "libvfs_xShmBarrier")
           => calls[c].value = calls[c].result

\* libvfs_xOpen has built the method table and returned the host's error.
C6_Witness ==
  \E c \in Conns :
    /\ InCall(c)
    /\ calls[c].entry = "libvfs_xOpen"
    /\ calls[c].phase = "returned"
    /\ calls[c].result = SQLITE_IOERR
    /\ calls[c].value = SQLITE_IOERR
    /\ calls[c].a[3] \in RelayHandles

(***************************************************************************)
(* C7: a call relayed in the asynchronous form returns to its caller only  *)
(* from the state in which the host operation has resolved; on return the  *)
(* output parameters are written and the result code is the resolved one.  *)
(***************************************************************************)
C7_AsyncReturnsAfterResolved ==
  [][ \A c \in Conns :
        ( /\ InCall(c)
          /\ IsRelay(calls[c].entry)
          /\ calls[c].hosts[1].form = "async"
          /\ calls[c].phase # "returned"
          /\ calls'[c].phase = "returned" ) =>
            /\ calls[c].phase = "resolved"
            /\ calls'[c].outDone
            /\ calls'[c].result = calls[c].result ]_vars

\* A call relayed in the asynchronous form has returned an error.
C7_Witness ==
  \E c \in Conns :
    /\ InCall(c)
    /\ IsRelay(calls[c].entry)
    /\ calls[c].hosts[1].form = "async"
    /\ calls[c].phase = "returned"
    /\ calls[c].outDone
    /\ calls[c].result = SQLITE_IOERR

(***************************************************************************)
(* C8: while a relayed call of a method whose bit is 1 in methodMask and 0 *)
(* in asyncMask has not returned, no step starts, advances or ends a call  *)
(* of another connection, and none registers an instance.                  *)
(***************************************************************************)
C8_SyncCallNotInterleaved ==
  [][ \A c \in Conns :
        ( /\ InCall(c)
          /\ IsRelay(calls[c].entry)
          /\ calls[c].phase # "returned"
          /\ BitSet(vfs[Owner(calls[c])].methodMask, MethodEnum[calls[c].slot])
          /\ ~BitSet(vfs[Owner(calls[c])].asyncMask, MethodEnum[calls[c].slot]) )
          => /\ \A d \in Conns \ {c} : calls'[d] = calls[d]
             /\ vfs' = vfs
             /\ regCall' = regCall ]_vars

\* A synchronous call of one connection runs while an asynchronous call of
\* the other is suspended.
C8_Witness ==
  \E c \in Conns, d \in Conns :
    /\ c # d
    /\ InCall(c)
    /\ IsRelay(calls[c].entry)
    /\ calls[c].phase = "running"
    /\ BitSet(vfs[Owner(calls[c])].methodMask, MethodEnum[calls[c].slot])
    /\ ~BitSet(vfs[Owner(calls[c])].asyncMask, MethodEnum[calls[c].slot])
    /\ Suspended(d)

(***************************************************************************)
(* C9: the host sees one xShmLock call per xShmLock call of the engine, in *)
(* the same order, each with the same handle, offset, n and flags.         *)
(***************************************************************************)
C9_ShmLockInOrder ==
  /\ Len(shmHost) = Len(shmNative)
  /\ \A i \in 1..Len(shmNative) : shmHost[i] = shmNative[i]

\* An exclusive acquire followed by a shared acquire of the same region.
C9_Witness ==
  /\ Len(shmHost) = 2
  /\ shmNative[1][1] = shmNative[2][1]
  /\ <<shmNative[1][2], shmNative[1][3], shmNative[1][4]>> = <<0, 1, 10>>
  /\ <<shmNative[2][2], shmNative[2][3], shmNative[2][4]>> = <<0, 1, 6>>

\* high32 * 2^32 + (low32 mod 2^32) as a 64-bit value.
Recompose(low32, high32) ==
  << low32 % LimbBase, (low32 \div LimbBase) % LimbBase,
     high32 % LimbBase, (high32 \div LimbBase) % LimbBase >>

(***************************************************************************)
(* C10: the two halves of the rowid an update-hook relay passes to the     *)
(* host are 32-bit integers, and high32 * 2^32 + (low32 mod 2^32) is the   *)
(* rowid the engine reported.                                              *)
(***************************************************************************)
C10_RowidRoundTrip ==
  hookCall # None =>
    LET n == Len(hookCall.args)
        low32 == hookCall.args[n - 1]
        high32 == hookCall.args[n]
    IN  /\ (low32 \div LimbBase) \in -LimbSign..(LimbSign - 1)
        /\ (high32 \div LimbBase) \in -LimbSign..(LimbSign - 1)
        /\ Recompose(low32, high32) = hookRowid

\* The update of row 2^63 - 1 has been relayed.
C10_Witness ==
  /\ hookCall # None
  /\ hookRowid = <<LimbBase - 1, LimbBase - 1, LimbBase - 1, LimbSign - 1>>

\* The position of NAME in the ordered list order, counted from 0.
IndexIn(order, NAME) ==
  (CHOOSE i \in 1..Len(order) : order[i] = NAME) - 1

\* The ordered enumeration as the specification gives it.
StatedOrder ==
  << "xOpen", "xDelete", "xAccess", "xFullPathname", "xRandomness", "xSleep",
     "xCurrentTime", "xCurrentTimeInt64", "xGetLastError", "xClose", "xRead",
     "xWrite", "xTruncate", "xSync", "xFileSize", "xLock", "xUnlock",
     "xCheckReservedLock", "xFileControl", "xSectorSize",
     "xDeviceCharacteristics", "xShmMap", "xShmLock", "xShmBarrier",
     "xShmUnmap" >>

\* The order with get-last-error before current-time-64, and the same
\* without randomness and sleep.
LibvfsOrder ==
  << "xOpen", "xDelete", "xAccess", "xFullPathname", "xRandomness", "xSleep",
     "xCurrentTime", "xGetLastError", "xCurrentTimeInt64", "xClose", "xRead",
     "xWrite", "xTruncate", "xSync", "xFileSize", "xLock", "xUnlock",
     "xCheckReservedLock", "xFileControl", "xSectorSize",
     "xDeviceCharacteristics", "xShmMap", "xShmLock", "xShmBarrier",
     "xShmUnmap" >>
LibadaptersOrder ==
  SelectSeq(LibvfsOrder, LAMBDA NAME : NAME \notin {"xRandomness", "xSleep"})

\* The relay call of every call in progress has the asynchronous form iff
\* the bit of its method at its position in order is set in the asyncMask of
\* the instance it is keyed on.
FormsFollow(libvfsOrder, libadaptersOrder) ==
  \A c \in Conns :
    (InCall(c) /\ calls[c].hosts # <<>>) =>
      LET h == calls[c].hosts[1]
          order == IF IsAdapter(calls[c].entry)
                   THEN libadaptersOrder ELSE libvfsOrder
      IN  h.form = IF BitSet(vfs[h.key].asyncMask, IndexIn(order, h.method))
                   THEN "async" ELSE "sync"

(***************************************************************************)
(* C11, as stated: in libvfs.c and in libadapters.c the bit of every       *)
(* method is its index in the enumeration open, delete, access,            *)
(* full-pathname, randomness, sleep, current-time, current-time-64,        *)
(* get-last-error, close, ..., shm-unmap, and that bit of asyncMask        *)
(* selects the form of a relayed call.                                     *)
(***************************************************************************)
C11_StatedOrderInBothModules ==
  /\ \A NAME \in DOMAIN MethodEnum :
       MethodEnum[NAME] = IndexIn(StatedOrder, NAME)
  /\ \A NAME \in DOMAIN AdapterMethodEnum :
       AdapterMethodEnum[NAME] = IndexIn(StatedOrder, NAME)
  /\ FormsFollow(StatedOrder, StatedOrder)

(***************************************************************************)
(* C11, amended: in libvfs.c the bit of a method is its index in the       *)
(* enumeration with get-last-error at 7 and current-time-64 at 8; in       *)
(* libadapters.c it is its index in that enumeration without randomness    *)
(* and sleep (current-time 4, get-last-error 5, current-time-64 6, close   *)
(* 7, ..., shm-unmap 22); each module selects the form of a relayed call   *)
(* by the bit of its own enumeration.                                      *)
(***************************************************************************)
C11_EachModuleItsOwnOrder ==
  /\ DOMAIN MethodEnum = { LibvfsOrder[i] : i \in 1..Len(LibvfsOrder) }
  /\ \A NAME \in DOMAIN MethodEnum :
       MethodEnum[NAME] = IndexIn(LibvfsOrder, NAME)
  /\ DOMAIN AdapterMethodEnum =
       { LibadaptersOrder[i] : i \in 1..Len(LibadaptersOrder) }
  /\ \A NAME \in DOMAIN AdapterMethodEnum :
       AdapterMethodEnum[NAME] = IndexIn(LibadaptersOrder, NAME)
  /\ FormsFollow(LibvfsOrder, LibadaptersOrder)

\* An instance of libadapters.c whose asyncMask has bit 4 and no other has
\* its current-time call relayed in the asynchronous form.
C11_Witness ==
  \E c \in Conns :
    /\ InCall(c)
    /\ calls[c].entry = "adapter_xCurrentTime"
    /\ vfs[calls[c].target].asyncMask = 16
    /\ calls[c].hosts[1].form = "async"

(***************************************************************************)
(* C12: an open whose method-table allocation failed returns the           *)
(* out-of-memory code, and leaves the handle without a table and without   *)
(* a back-reference.                                                       *)
(***************************************************************************)
C12_TableAllocationFailureIsNoMem ==
  \A c \in Conns :
    ( /\ InCall(c)
      /\ calls[c].entry = "libvfs_xOpen"
      /\ calls[c].phase = "returned"
      /\ files[calls[c].a[3]].pMethods = NULL ) =>
        /\ calls[c].value = SQLITE_NOMEM
        /\ files[calls[c].a[3]] = ClosedFile

(***************************************************************************)
(* C13: a registration call has two outcomes.  If the allocation of the    *)
(* instance fails it returns the out-of-memory code and leaves the         *)
(* registry, the default and the caller's handle as they were; otherwise,  *)
(* whatever the name, the masks and the registry (an absent default        *)
(* included), it returns success, the registry has one more instance,      *)
(* which keeps both masks, and the caller's handle names it.               *)
(***************************************************************************)
C13_OneFailureMode ==
  [][ (regCall = None /\ regCall' # None) =>
        \/ /\ regCall'.result = SQLITE_NOMEM
           /\ regCall'.ppVfs = NULL
           /\ vfs' = vfs
           /\ defaultVfs' = defaultVfs
        \/ /\ regCall'.result = SQLITE_OK
           /\ Len(vfs') = Len(vfs) + 1
           /\ SubSeq(vfs', 1, Len(vfs)) = vfs
           /\ regCall'.ppVfs = Len(vfs')
           /\ defaultVfs' \in {defaultVfs, Len(vfs')} ]_vars

(***************************************************************************)
(* C14: in every instance adapter_vfs_register has built with a fallback,  *)
(* each of the nine instance-level members is the relay entry of its       *)
(* method if the method's bit is set in methodMask, and the fallback's     *)
(* member otherwise; none is null where the fallback has one.              *)
(***************************************************************************)
C14_NineSlotsResolved ==
  \A v \in 1..Len(vfs) :
    vfs[v].backupVfs # NOVFS =>
      \A NAME \in VfsSlots :
        /\ vfs[v].base[NAME] =
             IF NAME \in DOMAIN AdapterMethodEnum
                /\ BitSet(vfs[v].methodMask, AdapterMethodEnum[NAME])
             THEN "adapter_" \o NAME
             ELSE BackupEntry(vfs[v].backupVfs, NAME)
        /\ BackupEntry(vfs[v].backupVfs, NAME) # NULLFN =>
             vfs[v].base[NAME] # NULLFN

(***************************************************************************)
(* C15: a registered instance never changes.  Whatever happens next (an    *)
(* open, a relayed call, a call returning, a later registration, with the  *)
(* same name or as the new default), every instance of the registry keeps  *)
(* its masks, its nine instance-level members and the fallback they were   *)
(* copied from.                                                            *)
(***************************************************************************)
C15_InstanceImmutable ==
  [][ \A v \in 1..Len(vfs) :
        /\ v <= Len(vfs')
        /\ vfs'[v].methodMask = vfs[v].methodMask
        /\ vfs'[v].asyncMask = vfs[v].asyncMask
        /\ vfs'[v].base = vfs[v].base
        /\ vfs'[v].backupVfs = vfs[v].backupVfs
        /\ vfs'[v] = vfs[v] ]_vars

\* A second instance has been registered under the name of the first and
\* made the default, a handle has been opened, and a relayed call on the
\* handle has returned.
C15_Witness ==
  /\ Len(vfs) = 2
  /\ vfs[1].zName = vfs[2].zName
  /\ defaultVfs = 2
  /\ \E c \in Conns :
       /\ InCall(c)
       /\ calls[c].level = "file"
       /\ IsRelay(calls[c].entry)
       /\ calls[c].phase = "returned"

\* The argument shape of each method, from the parameter lists of the
\* adapters: p for a pointer, i for an int, j for a sqlite3_int64.
ArgShape ==
  [ xOpen |-> "pppip", xDelete |-> "ppi", xAccess |-> "ppip",
    xFullPathname |-> "ppip", xRandomness |-> "pip", xSleep |-> "pi",
    xCurrentTime |-> "pp", xGetLastError |-> "pip",
    xCurrentTimeInt64 |-> "pp", xClose |-> "p", xRead |-> "ppij",
    xWrite |-> "ppij", xTruncate |-> "pj", xSync |-> "pi",
    xFileSize |-> "pp", xLock |-> "pi", xUnlock |-> "pi",
    xCheckReservedLock |-> "pp", xFileControl |-> "pip",
    xSectorSize |-> "p", xDeviceCharacteristics |-> "p",
    xShmMap |-> "piiip", xShmLock |-> "piii", xShmBarrier |-> "p",
    xShmUnmap |-> "pi" ]
ReturnShape(X) == IF X = "xShmBarrier" THEN "v" ELSE "i"

(***************************************************************************)
(* C16: a relay adapter of libvfs.c sits only in the slot of its own       *)
(* method X, in an instance and in a handle's table; when the engine calls *)
(* it through that slot it makes one relay call, which passes the name X,  *)
(* takes its form from bit X of the key's asyncMask, and has the signature *)
(* of X's result, the key, the name and X's arguments, one argument per    *)
(* letter.                                                                 *)
(***************************************************************************)
C16_AdapterNamesItsMethod ==
  /\ \A v \in 1..Len(vfs), NAME \in VfsSlots :
       IsRelay(vfs[v].base[NAME]) => vfs[v].base[NAME] = "libvfs_" \o NAME
  /\ \A t \in 1..Len(tables), NAME \in FileSlots :
       tables[t][NAME] \in {NULLFN, "libvfs_" \o NAME}
  /\ \A c \in Conns :
       (InCall(c) /\ IsRelay(calls[c].entry)) =>
         LET X == calls[c].slot
             h == calls[c].hosts[1]
         IN  /\ calls[c].entry = "libvfs_" \o X
             /\ Len(calls[c].hosts) = 1
             /\ h.method = X
             /\ h.form = IF BitSet(vfs[h.key].asyncMask, MethodEnum[X])
                         THEN "async" ELSE "sync"
             /\ h.sig = ReturnShape(X) \o "pp" \o ArgShape[X]
             /\ Len(h.args) = Len(ArgShape[X])
             /\ h.args = calls[c].a

\* The engine's xWrite on a handle is relayed in the asynchronous form
\* under the name xWrite with handle, buffer, int and 64-bit integer.
C16_Witness ==
  \E c \in Conns :
    /\ InCall(c)
    /\ calls[c].entry = "libvfs_xWrite"
    /\ calls[c].hosts[1].method = "xWrite"
    /\ calls[c].hosts[1].form = "async"
    /\ calls[c].hosts[1].sig = "ippppij"

CopiedFromFallback(k) ==
  \A NAME \in VfsSlots :
    ~BitSet(vfs[k].methodMask, MethodEnum[NAME]) =>
       vfs[k].base[NAME] = BackupEntry(vfs[k].backupVfs, NAME)

\* If this step registers an instance, its fallback is the default before
\* the step; the earlier instances keep their fallback; and whenever the
\* registry changes every instance, old or new, has its unimplemented
\* members from its fallback.
FallbackIsDefault ==
  /\ Len(vfs') = Len(vfs) + 1 => vfs'[Len(vfs')].backupVfs = defaultVfs
  /\ \A k \in 1..Len(vfs) : vfs'[k].backupVfs = vfs[k].backupVfs
  /\ vfs' # vfs => \A k \in 1..Len(vfs') : CopiedFromFallback(k)'

(***************************************************************************)
(* C18, as stated: the fallback of an instance is the default at the       *)
(* moment of its registration, and the default is the latest instance      *)
(* registered with makeDefault set, or the initial default: a registration *)
(* with makeDefault set makes the new instance the default, and nothing    *)
(* else changes the default.                                               *)
(***************************************************************************)
C18_FallbackIsLastMakeDefault ==
  [][ /\ FallbackIsDefault
      /\ defaultVfs' = IF Len(vfs') = Len(vfs) + 1 /\ regCall'.makeDefault
                       THEN Len(vfs') ELSE defaultVfs ]_vars

(***************************************************************************)
(* C18, amended: the fallback of an instance is the default at the moment  *)
(* of its registration, and the default is the latest instance registered  *)
(* with makeDefault set or registered while there was no default, or the   *)
(* initial default; the unimplemented members of an instance are its       *)
(* fallback's, whatever is registered later.                               *)
(***************************************************************************)
C18_FallbackIsDefaultAtRegistration ==
  [][ /\ FallbackIsDefault
      /\ defaultVfs' = IF /\ Len(vfs') = Len(vfs) + 1
                          /\ (regCall'.makeDefault \/ defaultVfs = NOVFS)
                       THEN Len(vfs') ELSE defaultVfs ]_vars

\* An instance registered without makeDefault while there was no default is
\* the default.
C18_Witness ==
  /\ Len(vfs) = 1
  /\ vfs[1].backupVfs = NOVFS
  /\ regCall # None
  /\ regCall.result = SQLITE_OK
  /\ ~regCall.makeDefault
  /\ defaultVfs = 1

\* The libvfs_xOpen call of connection c returns in this step.
OpenReturns(c) ==
  /\ calls[c] # None
  /\ calls[c].entry = "libvfs_xOpen"
  /\ calls[c].phase # "returned"
  /\ calls'[c] # None
  /\ calls'[c].phase = "returned"

\* The tables allocated so far are as they were, none freed, and no two
\* handles have the same one.
TablesKept ==
  /\ Len(tables') >= Len(tables)
  /\ SubSeq(tables', 1, Len(tables)) = tables
  /\ \A f1, f2 \in DOMAIN files' :
       (f1 # f2 /\ files'[f1].pMethods \in 1..Len(tables')) =>
          files'[f1].pMethods # files'[f2].pMethods

Flagged(pApp) == pApp # NULL /\ AppData[pApp] # 0

\* The signature each callback of libhook.c, libprogress.c, libauthorizer.c
\* and libtrace.c relays with.
FlagRelaySignature ==
  [ libhook_xCommitHook |-> "ipp", libprogress_xProgress |-> "ipp",
    libauthorizer_xAuthorize |-> "ippipppp", libtrace_xTrace |-> "ippipp",
    libhook_xUpdateHook |-> "vppippii" ]
IsAsyncForm(fn) ==
  \E e \in DOMAIN FlagRelaySignature : fn = FlagRelaySignature[e] \o "_async"

\* The host function a callback of libfunction.c or libmodule.c calls.
DirectFunction(entry) ==
  CASE entry = "xFunc" -> "jsFunc"
    [] entry = "xStep" -> "jsStep"
    [] entry = "xFinal" -> "jsFinal"
    [] entry = "xCreate" -> "modCreate"
    [] entry = "xConnect" -> "modConnect"
    [] entry = "xOpen" -> "modOpen"
    [] OTHER -> entry

(***************************************************************************)
(* C20, as stated: every callback relay, of an SQL function, the           *)
(* authorizer, a commit, update, progress or trace hook or a virtual       *)
(* table, makes its host call in the asynchronous form iff the user data   *)
(* of its installation is not null and the int it points to is not zero.   *)
(***************************************************************************)
C20_EveryRelayFollowsFlag ==
  /\ cbCall # None =>
       (IsAsyncForm(cbCall.host.fn) <=> Flagged(cbCall.pArg))
  /\ hookCall # None =>
       (IsAsyncForm(hookCall.fn) <=> Flagged(hookCall.args[1]))

(***************************************************************************)
(* C20, amended: the commit and update hooks of libhook.c, the progress    *)
(* handler, the authorizer and the trace callback make their host call,    *)
(* keyed on the user data, in the asynchronous form of their signature iff *)
(* the user data is not null and the int it points to is not zero, and in  *)
(* the synchronous form otherwise.  The callbacks of libfunction.c (SQL    *)
(* functions, its update hook) and of libmodule.c (virtual tables) call    *)
(* the one host function of their name, whatever the user data holds.      *)
(***************************************************************************)
C20_FlagRelaysFollowFlag ==
  /\ cbCall # None =>
       IF cbCall.entry \in DOMAIN FlagRelaySignature
       THEN /\ cbCall.host.fn =
                 IF Flagged(cbCall.pArg)
                 THEN FlagRelaySignature[cbCall.entry] \o "_async"
                 ELSE FlagRelaySignature[cbCall.entry]
            /\ cbCall.host.args[1] = cbCall.pArg
       ELSE cbCall.host.fn = DirectFunction(cbCall.entry)
  /\ hookCall # None =>
       \/ hookCall.fn = "jsUpdateHook"
       \/ hookCall.fn = IF Flagged(hookCall.args[1])
                        THEN FlagRelaySignature["libhook_xUpdateHook"] \o "_async"
                        ELSE FlagRelaySignature["libhook_xUpdateHook"]

\* The update hook of libhook.c has relayed in the asynchronous form, and an
\* aggregate step whose user data holds a non-zero int has called jsStep.
C20_Witness ==
  /\ hookCall # None
  /\ hookCall.fn = "vppippii_async"
  /\ cbCall # None
  /\ cbCall.entry = "xStep"
  /\ Flagged(cbCall.pArg)
  /\ cbCall.host.fn = "jsStep"

\* The signed 32-bit value of two 16-bit limbs, and the two halves of a
\* 64-bit value.
Int32Of(lowLimb, highLimb) ==
  (IF highLimb >= LimbSign THEN highLimb - LimbBase ELSE highLimb) * LimbBase
  + lowLimb
LowHalf(x) == Int32Of(x[1], x[2])
HighHalf(x) == Int32Of(x[3], x[4])

(***************************************************************************)
(* C21, as stated: both update-hook relays, of libhook.c and of            *)
(* libfunction.c, pass the halves of the rowid as their last two           *)
(* arguments in the order high, low.                                       *)
(***************************************************************************)
C21_HalvesHighThenLow ==
  hookCall # None =>
    LET n == Len(hookCall.args)
    IN  /\ hookCall.args[n - 1] = HighHalf(hookRowid)
        /\ hookCall.args[n] = LowHalf(hookRowid)

(***************************************************************************)
(* C21, amended: both update-hook relays, of libhook.c (in either form)    *)
(* and of libfunction.c, pass the halves of the rowid as their last two    *)
(* arguments in the order low, high.                                       *)
(***************************************************************************)
C21_HalvesLowThenHigh ==
  hookCall # None =>
    LET n == Len(hookCall.args)
    IN  /\ hookCall.fn \in {"vppippii", "vppippii_async", "jsUpdateHook"}
        /\ n = IF hookCall.fn = "jsUpdateHook" THEN 6 ELSE 7
        /\ hookCall.args[n - 1] = LowHalf(hookRowid)
        /\ hookCall.args[n] = HighHalf(hookRowid)

\* The update of row 2^31 - 1, whose halves are 2^31 - 1 and 0, has been
\* relayed by libhook.c.
C21_Witness ==
  /\ hookCall # None
  /\ hookCall.fn = "vppippii"
  /\ hookRowid = <<LimbBase - 1, LimbSign - 1, 0, 0>>
  /\ hookCall.args[6] # hookCall.args[7]

(***************************************************************************)
(* C22, as stated: no call makes an asynchronous host call for a method    *)
(* whose bit is not set in the methodMask of the instance the host call    *)
(* is keyed on, whatever that instance's asyncMask holds.                  *)
(***************************************************************************)
C22_NoAsyncRelayOfUnimplemented ==
  \A c \in Conns :
    InCall(c) =>
      \A i \in 1..Len(calls[c].hosts) :
        LET host == calls[c].hosts[i]
        IN  host.form = "async" =>
              BitSet(vfs[host.key].methodMask, MethodEnum[host.method])

(***************************************************************************)
(* C23, as stated: when libvfs_xOpen has returned, whatever result code    *)
(* the relayed open gave, the handle carries the back-reference to the     *)
(* opening instance and a method table whose entry is the relay adapter    *)
(* for every per-handle method the instance implements.                    *)
(***************************************************************************)
C23_TableInstalledForEveryResult ==
  \A c \in Conns :
    (InCall(c) /\ calls[c].entry = "libvfs_xOpen"
       /\ calls[c].phase = "returned") =>
      LET pVfsExt == calls[c].a[1]
          pFile == calls[c].a[3]
      IN  /\ calls[c].value = calls[c].result
          /\ files[pFile].pVfs = pVfsExt
          /\ files[pFile].pMethods \in 1..Len(tables)
          /\ \A NAME \in FileSlots :
               BitSet(vfs[pVfsExt].methodMask, MethodEnum[NAME]) =>
                 tables[files[pFile].pMethods][NAME] = "libvfs_" \o NAME

\* The table relay call made is a create or a connect; a cursor open.
IsTableCall == cbCall # None /\ cbCall.entry \in {"xCreate", "xConnect"}
IsCursorCall == cbCall # None /\ cbCall.entry = "xOpen"

(***************************************************************************)
(* C24: xCreate and xConnect hand the host the object they allocated       *)
(* before the call; when the host returns a non-OK result the output       *)
(* pointer is null and no allocation is held; when it returns OK the       *)
(* output pointer is the allocated object, which is the only allocation    *)
(* held.  xOpen, by contrast, leaves the output pointer at the allocated   *)
(* cursor and keeps the allocation whatever the host returns.              *)
(***************************************************************************)
C24_FailedCreateFreesAndClears ==
  /\ IsTableCall =>
       LET host == cbCall.host
           allocated == host.args[5]
       IN  /\ host.fn = IF cbCall.entry = "xCreate"
                        THEN "modCreate" ELSE "modConnect"
           /\ Len(host.args) = 6
           /\ IF host.result # SQLITE_OK
              THEN host.out = NULL /\ ~host.live
              ELSE host.out = allocated /\ (host.live <=> allocated # NULL)
  /\ IsCursorCall =>
       LET host == cbCall.host
           allocated == host.args[2]
       IN  /\ host.fn = "modOpen"
           /\ host.out = allocated
           /\ host.live <=> allocated # NULL

\* A create whose allocation succeeded has failed in the host.
C24_Witness ==
  /\ IsTableCall
  /\ cbCall.entry = "xCreate"
  /\ cbCall.host.args[5] # NULL
  /\ cbCall.host.result # SQLITE_OK
  /\ cbCall.host.out = NULL

\* The native callback installed for a hook family on connection db, the
\* user data installed with it, and the relay callback of the family.
InstalledCallback(db, family) ==
  IF family = "update"
  THEN updateHook[db].xCallback
  ELSE IF callbacks[db][family].entries = {}
       THEN NULLFN
       ELSE CHOOSE e \in callbacks[db][family].entries : TRUE
InstalledUserData(db, family) ==
  IF family = "update" THEN updateHook[db].pArg ELSE callbacks[db][family].pArg
RelayCallback(family) ==
  CASE family = "commit" -> "libhook_xCommitHook"
    [] family = "update" -> "libhook_xUpdateHook"
    [] family = "progress" -> "libprogress_xProgress"
    [] family = "authorizer" -> "libauthorizer_xAuthorize"
    [] family = "trace" -> "libtrace_xTrace"

(***************************************************************************)
(* C25, as stated: for each connection and each hook family, after the     *)
(* most recent call of the family's installation function the installed    *)
(* callback is the relay callback iff the call's flag was non-zero and is  *)
(* null iff it was zero, and the installed user data is the call's.        *)
(***************************************************************************)
C25_CallbackFollowsFlag ==
  \A db \in DOMAIN lastInstall, family \in HookFamilies :
    LET call == lastInstall[db][family]
    IN  (call # None /\ call.fn # "update_hook") =>
          /\ InstalledCallback(db, family) = RelayCallback(family)
               <=> call.flag # 0
          /\ InstalledCallback(db, family) = NULLFN <=> call.flag = 0
          /\ InstalledUserData(db, family) = call.pApp

(***************************************************************************)
(* C25, amended: for each connection and each hook family, the installed   *)
(* callback and user data are those of the most recent installation call   *)
(* on that connection for that family, and nothing is installed before     *)
(* the first.  The callback is the relay callback when the call's flag     *)
(* was non-zero and, for the progress handler, its count was at least 1    *)
(* and, for the trace callback, its mask was not zero; it is null          *)
(* otherwise.  The user data is the call's, except that a progress         *)
(* handler call with a count below 1 leaves it null.  After update_hook    *)
(* of libfunction.c, which takes no flag, the update hook is xUpdateHook   *)
(* with the call's user data.                                              *)
(***************************************************************************)
C25_CallbackFollowsFlagWhereEnabled ==
  \A db \in DOMAIN lastInstall, family \in HookFamilies :
    LET call == lastInstall[db][family]
        enabled == CASE call.fn = "libprogress_progress_handler" -> call.nOps > 0
                     [] call.fn = "libtrace_trace" -> call.mTrace # 0
                     [] OTHER -> TRUE
    IN  IF call = None
        THEN /\ InstalledCallback(db, family) = NULLFN
             /\ InstalledUserData(db, family) = NULL
        ELSE IF call.fn = "update_hook"
        THEN /\ InstalledCallback(db, family) = "xUpdateHook"
             /\ InstalledUserData(db, family) = call.pApp
        ELSE /\ InstalledCallback(db, family) =
                  IF call.flag # 0 /\ enabled
                  THEN RelayCallback(family) ELSE NULLFN
             /\ InstalledUserData(db, family) =
                  IF family = "progress" /\ ~enabled THEN NULL ELSE call.pApp

\* The commit hook is installed on one connection and, with other user
\* data, cleared on another.
C25_Witness ==
  \E db1, db2 \in DOMAIN lastInstall :
    /\ db1 # db2
    /\ lastInstall[db1]["commit"] # None
    /\ lastInstall[db2]["commit"] # None
    /\ lastInstall[db1]["commit"].flag = 1
    /\ lastInstall[db2]["commit"].flag = 0
    /\ lastInstall[db2]["commit"].pApp # NULL
    /\ InstalledCallback(db1, "commit") = "libhook_xCommitHook"
    /\ InstalledCallback(db2, "commit") = NULLFN
    /\ InstalledUserData(db1, "commit") # InstalledUserData(db2, "commit")

====
